---- MODULE Spec2Model ----
(***************************************************************************)
(* Elevator-API: the fleet coordinator (ElevatorService), the dispatch     *)
(* engine (SchedulingService) and the request ledger (FloorRequest rows),  *)
(* as a state machine.                                                     *)
(*                                                                         *)
(* Granularity.  JavaScript runs a handler from one await to the next      *)
(* without interruption.  Every action below is: the continuation of the   *)
(* await a task is suspended at, the synchronous code that follows, and    *)
(* the database operation of the next await (executed at the end of the    *)
(* step).  What a task read from the database is kept in its record, so a  *)
(* continuation acts on the snapshot it was given, which other tasks may   *)
(* have made stale in between.                                             *)
(*                                                                         *)
(* Time.  floorTravelTime and doorOperationTime are configuration values,  *)
(* so the order in which pending timers and the 1 s tick fire is left      *)
(* open: a scheduled timer may fire at any later step.                     *)
(***************************************************************************)
EXTENDS Integers, Sequences, FiniteSets, TLC

(* ------------------------------ bounds -------------------------------- *)
\* config.elevator.count and config.elevator.totalFloors of the deployment
\* that Spec and RaceSpec run
NumElevators == 1
NumFloors == 2
\* rows the ledger may hold
MaxRequests == 2
\* callElevator invocations in flight at once under RaceSpec
MaxCalls == 2
\* the fleet and the building that DispatchSpec draws its inputs from
FleetSize == 2
DispatchFloors == 3
\* priorities range over 0..MaxPriority
MaxPriority == 1
\* status queries in flight at once under StatusSpec
MaxStatusCalls == 2
\* intervals startServiceLoop may have started under LifecycleSpec
MaxLoops == 2
\* failed per-tick tasks logged per unit
MaxErrors == 1
\* pending timers of one kind per elevator
MaxTimers == 1
\* processIdleState tasks of one elevator suspended at getNextRequests
MaxIdleTasks == 1

(* ------------------------- program constants -------------------------- *)
FloorTravelTime == 5000
DoorOperationTime == 2000
NextRequestsLimit == 5

Priorities == 0..MaxPriority

\* null for targetFloor / elevatorId / request
Null == 0

ELEVATOR_STATES == {"IDLE", "MOVING_UP", "MOVING_DOWN", "DOOR_OPENING",
                    "DOOR_OPEN", "DOOR_CLOSING", "MAINTENANCE", "OUT_OF_SERVICE"}
DIRECTIONS == {"UP", "DOWN", "NONE"}
DOOR_STATES == {"OPEN", "CLOSED", "OPENING", "CLOSING"}
SCHEDULING_ALGORITHMS == {"SCAN", "LOOK"}
\* values this.algorithm takes: the two named algorithms and the default branch
Algorithms == SCHEDULING_ALGORITHMS \cup {"NEAREST"}
ActiveStatuses == {"PENDING", "ASSIGNED", "IN_PROGRESS"}

VARIABLES
    activeElevators,   \* ElevatorService.activeElevators: id -> in-memory instance
    movementTimers,    \* ElevatorService.movementTimers: id -> a pending handle?
    orphanTimers,      \* pending movement timers no longer held by the map
    doorOpeningTimers, \* pending timers of processDoorOpeningState
    autoCloseTimers,   \* pending 5 s auto-close timers
    doorClosingTimers, \* pending timers of processDoorClosingState
    idleTasks,         \* processIdleState tasks suspended at getNextRequests
    dbElevators,       \* rows of table elevators
    floorRequests,     \* rows of table floor_requests, in creation order
    totalFloors,       \* config.elevator.totalFloors
    uniqueIndex,       \* does the schema hold unique_active_floor_direction?
    algorithm,         \* SchedulingService.algorithm
    calls,             \* callElevator invocations in flight
    operatorCall,      \* the operator's call (stop, maintenance, switch) at its end
    statusCalls,       \* status queries (of one unit or of all units) in flight
    service,           \* ElevatorService.isInitialized and its running intervals
    detached,          \* instances cleared from the map that closures still hold
    errors,            \* 'Error processing elevator movement' entries per unit
    estimate           \* calculateEstimatedArrival: its inputs and its answer

vars == <<activeElevators, movementTimers, orphanTimers, doorOpeningTimers,
          autoCloseTimers, doorClosingTimers, idleTasks, dbElevators,
          floorRequests, totalFloors, uniqueIndex, algorithm, calls,
          operatorCall, statusCalls, service, detached, errors, estimate>>

\* what only initialize and shutdown write
lifecycleVars == <<service, detached>>

\* what no operation writes: the configuration and the schema
configVars == <<totalFloors, uniqueIndex>>

Elevators == DOMAIN activeElevators
CallIds == DOMAIN calls
StatusIds == DOMAIN statusCalls
\* floors a caller may pass: the valid ones and one on each side
InputFloors == 0..(totalFloors + 1)

timerVars == <<movementTimers, orphanTimers, doorOpeningTimers,
               autoCloseTimers, doorClosingTimers>>

(* ------------------------------ helpers ------------------------------- *)
Abs(x) == IF x < 0 THEN -x ELSE x

MinOf(S) == CHOOSE x \in S : \A y \in S : x <= y

MaxOf(S) == CHOOSE x \in S : \A y \in S : x >= y

Range(s) == {s[i] : i \in DOMAIN s}

\* Array.prototype.sort with the comparator given as the function cmp on pairs
\* of elements (stable; cmp[a, b] > 0 puts a after b)
SortBy(s, cmp) ==
    LET ins(acc, x) ==
            LET le == {j \in 1..Len(acc) : cmp[acc[j], x] <= 0}
                p == IF le = {} THEN 0 ELSE MaxOf(le)
            IN  SubSeq(acc, 1, p) \o <<x>> \o SubSeq(acc, p + 1, Len(acc))
        f[k \in 0..Len(s)] == IF k = 0 THEN <<>> ELSE ins(f[k - 1], s[k])
    IN  f[Len(s)]

\* the first n elements (SQL LIMIT / Array.prototype.slice(0, n))
Take(s, n) == SubSeq(s, 1, IF Len(s) < n THEN Len(s) ELSE n)

\* ElevatorHelper.isMovingTowards
isMovingTowards(elevatorFloor, elevatorDirection, targetFloor) ==
    IF elevatorDirection = "NONE" THEN FALSE
    ELSE IF elevatorDirection = "UP" THEN targetFloor >= elevatorFloor
    ELSE targetFloor <= elevatorFloor

(* --------------------------- request ledger --------------------------- *)
RequestIds == DOMAIN floorRequests

\* findOne that looks only for rows already handed to a unit
existingRequest_Assigned(floor, direction) ==
    \E r \in RequestIds :
        /\ floorRequests[r].floor = floor
        /\ floorRequests[r].direction = direction
        /\ floorRequests[r].status \in {"ASSIGNED", "IN_PROGRESS"}

\* FloorRequest.findOne({floor, direction, status: active}) finds a row
existingRequest(floor, direction) ==
    \E r \in RequestIds :
        /\ floorRequests[r].floor = floor
        /\ floorRequests[r].direction = direction
        /\ floorRequests[r].status \in ActiveStatuses

\* the row FloorRequest.create inserts (status defaults to PENDING)
NewRequest(floor, direction, priority) ==
    [floor |-> floor, direction |-> direction, priority |-> priority,
     status |-> "PENDING", elevatorId |-> Null]

\* FloorRequest.prototype.assign
assign(requests, r, elevatorId) ==
    [requests EXCEPT ![r].elevatorId = elevatorId, ![r].status = "ASSIGNED"]

\* FloorRequest.prototype.complete
complete(requests, r) ==
    [requests EXCEPT ![r].status = "COMPLETED"]

(* -------------------------- dispatch engine --------------------------- *)
\* Elevator.isAvailable as the WHERE clause of getAvailableElevators states it
isAvailable(row) ==
    /\ row.isActive
    /\ row.state \notin {"MAINTENANCE", "OUT_OF_SERVICE"}

\* what dispatch reads of an elevators row
AvailRow(db, u) ==
    [id |-> u, currentFloor |-> db[u].currentFloor, direction |-> db[u].direction]

NullRow == [id |-> Null, currentFloor |-> Null, direction |-> "NONE"]

\* SchedulingService.getAvailableElevators: the available rows by elevatorNumber
getAvailableElevators(db) ==
    LET ids == SelectSeq([i \in 1..Len(db) |-> i],
                         LAMBDA u : isAvailable(db[u]))
    IN  [i \in 1..Len(ids) |-> AvailRow(db, ids[i])]

\* a findClosestElevator that starts its search from the second row
findClosestElevator_SkipFirst(elevators, targetFloor) ==
    IF Len(elevators) <= 1 THEN NullRow ELSE elevators[2]

\* a findClosestElevator that replaces its candidate on an equal distance too
findClosestElevator_LastOnTie(elevators, targetFloor) ==
    IF Len(elevators) = 0 THEN NullRow
    ELSE LET dist(e) == Abs(e.currentFloor - targetFloor)
             closest[k \in 1..Len(elevators)] ==
                 IF k = 1 THEN elevators[1]
                 ELSE IF dist(elevators[k]) <= dist(closest[k - 1])
                      THEN elevators[k]
                      ELSE closest[k - 1]
         IN  closest[Len(elevators)]

\* SchedulingService.findClosestElevator: the first row at the least distance
findClosestElevator(elevators, targetFloor) ==
    IF Len(elevators) = 0 THEN NullRow
    ELSE LET dist(e) == Abs(e.currentFloor - targetFloor)
             closest[k \in 1..Len(elevators)] ==
                 IF k = 1 THEN elevators[1]
                 ELSE IF dist(elevators[k]) < dist(closest[k - 1])
                      THEN elevators[k]
                      ELSE closest[k - 1]
         IN  closest[Len(elevators)]

\* SchedulingService.willElevatorEventuallyReach
willElevatorEventuallyReach(elevator, requestFloor, requestDirection) == TRUE

\* a calculateScanTime that scores every unit by its distance
calculateScanTime_Direct(elevator, requestFloor, requestDirection) ==
    Abs(requestFloor - elevator.currentFloor) * FloorTravelTime

\* SchedulingService.calculateScanTime
calculateScanTime(elevator, requestFloor, requestDirection) ==
    LET currentFloor == elevator.currentFloor
        direction == elevator.direction
    IN  IF direction = "NONE"
        THEN Abs(requestFloor - currentFloor) * FloorTravelTime
        ELSE IF direction = "UP"
        THEN IF requestDirection = "UP" /\ currentFloor <= requestFloor
             THEN (requestFloor - currentFloor) * FloorTravelTime
             ELSE (totalFloors - currentFloor) * FloorTravelTime
                  + (totalFloors - requestFloor) * FloorTravelTime
        ELSE IF requestDirection = "DOWN" /\ currentFloor >= requestFloor
             THEN (currentFloor - requestFloor) * FloorTravelTime
             ELSE (currentFloor - 1) * FloorTravelTime
                  + (requestFloor - 1) * FloorTravelTime

\* a filter of scanAlgorithm that passes moving units only
sameDirection_MovingOnly(elevator, requestFloor, requestDirection) ==
    IF requestDirection = "UP" /\ elevator.direction = "UP"
    THEN elevator.currentFloor <= requestFloor
    ELSE IF requestDirection = "DOWN" /\ elevator.direction = "DOWN"
    THEN elevator.currentFloor >= requestFloor
    ELSE FALSE

\* the filter of scanAlgorithm: idle, or moving the request's way with the floor ahead
sameDirection(elevator, requestFloor, requestDirection) ==
    IF elevator.direction = "NONE" THEN TRUE
    ELSE IF requestDirection = "UP" /\ elevator.direction = "UP"
    THEN elevator.currentFloor <= requestFloor
    ELSE IF requestDirection = "DOWN" /\ elevator.direction = "DOWN"
    THEN elevator.currentFloor >= requestFloor
    ELSE FALSE

\* SchedulingService.scanAlgorithm
scanAlgorithm(request, availableElevators) ==
    LET requestFloor == request.floor
        requestDirection == request.direction
        sameDirectionElevators ==
            SelectSeq(availableElevators,
                      LAMBDA e : sameDirection(e, requestFloor, requestDirection))
        suitableElevators ==
            SelectSeq(availableElevators,
                      LAMBDA e : willElevatorEventuallyReach(e, requestFloor,
                                                             requestDirection))
        byTime == [a, b \in Range(suitableElevators) |->
                      calculateScanTime(a, requestFloor, requestDirection)
                      - calculateScanTime(b, requestFloor, requestDirection)]
    IN  IF Len(sameDirectionElevators) > 0
        THEN findClosestElevator(sameDirectionElevators, requestFloor)
        ELSE IF Len(suitableElevators) > 0
        THEN SortBy(suitableElevators, byTime)[1]
        ELSE findClosestElevator(availableElevators, requestFloor)

\* SchedulingService.nearestElevatorAlgorithm
nearestElevatorAlgorithm(request, availableElevators) ==
    findClosestElevator(availableElevators, request.floor)

\* one entry of getElevatorRequestLoads: the floors of the active rows of an
\* elevator, split by direction
requestLoad(requests, elevatorId) ==
    LET rows == SelectSeq([i \in 1..Len(requests) |-> i],
                          LAMBDA r : /\ requests[r].elevatorId = elevatorId
                                     /\ requests[r].status \in ActiveStatuses)
        ups == SelectSeq(rows, LAMBDA r : requests[r].direction = "UP")
        downs == SelectSeq(rows, LAMBDA r : requests[r].direction = "DOWN")
    IN  [upRequests |-> [i \in 1..Len(ups) |-> requests[ups[i]].floor],
         downRequests |-> [i \in 1..Len(downs) |-> requests[downs[i]].floor]]

\* SchedulingService.calculateLookTime
calculateLookTime(elevator, requestFloor, requestDirection, load) ==
    LET currentFloor == elevator.currentFloor
        direction == elevator.direction
        upRequests == {f \in Range(load.upRequests) : f >= currentFloor}
        downRequests == {f \in Range(load.downRequests) : f <= currentFloor}
    IN  IF direction = "NONE"
        THEN Abs(requestFloor - currentFloor) * FloorTravelTime
        ELSE IF direction = "UP"
        THEN IF requestDirection = "UP" /\ requestFloor >= currentFloor
             THEN LET at == {f \in upRequests : f >= requestFloor}
                      floorsToTravel == IF at # {} THEN MinOf(at) - currentFloor
                                        ELSE requestFloor - currentFloor
                  IN  floorsToTravel * FloorTravelTime
             ELSE LET maxUpFloor == IF upRequests # {} THEN MaxOf(upRequests)
                                    ELSE currentFloor
                  IN  (maxUpFloor - currentFloor) * FloorTravelTime
                      + (maxUpFloor - requestFloor) * FloorTravelTime
        ELSE IF requestDirection = "DOWN" /\ requestFloor <= currentFloor
             THEN LET at == {f \in downRequests : f <= requestFloor}
                      floorsToTravel == IF at # {} THEN currentFloor - MaxOf(at)
                                        ELSE currentFloor - requestFloor
                  IN  floorsToTravel * FloorTravelTime
             ELSE LET minDownFloor == IF downRequests # {} THEN MinOf(downRequests)
                                      ELSE currentFloor
                  IN  (currentFloor - minDownFloor) * FloorTravelTime
                      + (requestFloor - minDownFloor) * FloorTravelTime

\* a calculateLookEfficiency without the bonus for direction alignment
calculateLookEfficiency_Unaligned(elevator, requestFloor, requestDirection, load) ==
    LET currentFloor == elevator.currentFloor
        distance == Abs(requestFloor - currentFloor)
        totalLoad == Len(load.upRequests) + Len(load.downRequests)
        onTheWay ==
            IF /\ elevator.direction = "UP" /\ requestDirection = "UP"
               /\ requestFloor > currentFloor THEN 7
            ELSE IF /\ elevator.direction = "DOWN" /\ requestDirection = "DOWN"
                    /\ requestFloor < currentFloor THEN 7
            ELSE 10
    IN  distance * 10 * (10 + totalLoad) * onTheWay

\* SchedulingService.calculateLookEfficiency, in thousandths:
\* distance * (0.8 | 1) * (1 + 0.1 * totalLoad) * (0.7 | 1), times 1000
\* (for distances up to 3 floors and loads up to 2 requests the doubles the
\* code computes compare, with each other and with the 0.1 of lookAlgorithm,
\* as these integers do with 100; loads of 1 and 2 at the same distance are
\* the first pair that does not)
calculateLookEfficiency(elevator, requestFloor, requestDirection, load) ==
    LET currentFloor == elevator.currentFloor
        distance == Abs(requestFloor - currentFloor)
        aligned == IF elevator.direction = requestDirection
                      \/ elevator.direction = "NONE" THEN 8 ELSE 10
        totalLoad == Len(load.upRequests) + Len(load.downRequests)
        onTheWay ==
            IF /\ elevator.direction = "UP" /\ requestDirection = "UP"
               /\ requestFloor > currentFloor THEN 7
            ELSE IF /\ elevator.direction = "DOWN" /\ requestDirection = "DOWN"
                    /\ requestFloor < currentFloor THEN 7
            ELSE 10
    IN  distance * aligned * (10 + totalLoad) * onTheWay

\* SchedulingService.lookAlgorithm, given the loads it has read (loads[i] is the
\* load of availableElevators[i]; an elevator without one gets the empty load)
lookAlgorithm(request, availableElevators, loads) ==
    LET emptyLoad == [upRequests |-> <<>>, downRequests |-> <<>>]
        loadOf(i) == IF i \in DOMAIN loads THEN loads[i] ELSE emptyLoad
        suitableElevators ==
            [i \in 1..Len(availableElevators) |->
                [elevator |-> availableElevators[i],
                 efficiency |-> calculateLookEfficiency(availableElevators[i],
                                    request.floor, request.direction, loadOf(i)),
                 estimatedTime |-> calculateLookTime(availableElevators[i],
                                    request.floor, request.direction, loadOf(i))]]
        cmp == [a, b \in Range(suitableElevators) |->
                   IF Abs(a.efficiency - b.efficiency) < 100
                   THEN a.estimatedTime - b.estimatedTime
                   ELSE a.efficiency - b.efficiency]
        sorted == SortBy(suitableElevators, cmp)
    IN  IF Len(sorted) > 0 THEN sorted[1].elevator
        ELSE IF Len(availableElevators) > 0 THEN availableElevators[1]
        ELSE NullRow

\* a getNextRequests whose query leaves out the elevatorId condition
getNextRequests_AnyUnit(requests, elevatorId) ==
    SelectSeq([i \in 1..Len(requests) |-> i],
              LAMBDA r : requests[r].status \in {"ASSIGNED", "PENDING"})

\* SchedulingService.getNextRequests: ids of the ASSIGNED or PENDING rows of an
\* elevator, by priority DESC then requestedAt ASC, at most five
getNextRequests(requests, elevatorId) ==
    LET rows == SelectSeq([i \in 1..Len(requests) |-> i],
                          LAMBDA r : /\ requests[r].elevatorId = elevatorId
                                     /\ requests[r].status \in {"ASSIGNED", "PENDING"})
        byPriority == [a, b \in Range(rows) |->
                          requests[b].priority - requests[a].priority]
    IN  Take(SortBy(rows, byPriority), NextRequestsLimit)

(* --------------------------- elevator unit ---------------------------- *)
\* ElevatorService.updateElevatorInDatabase: Elevator.update of the five fields
\* (isActive is not among them); a null currentFloor fails the row's validation
\* and the error is logged and swallowed
updateElevatorInDatabase(db, u, elevator) ==
    IF elevator.currentFloor = Null THEN db
    ELSE [db EXCEPT ![u].currentFloor = elevator.currentFloor,
                    ![u].targetFloor = elevator.targetFloor,
                    ![u].state = elevator.state,
                    ![u].direction = elevator.direction,
                    ![u].doorState = elevator.doorState]

\* ElevatorService.calculateFloorOptimality
calculateFloorOptimality(elevator, targetFloor) ==
    LET distance == Abs(targetFloor - elevator.currentFloor)
    IN  IF elevator.direction # "NONE"
        THEN IF isMovingTowards(elevator.currentFloor, elevator.direction, targetFloor)
             THEN distance
             ELSE distance + 1000
        ELSE distance

\* the queue of callElevator after push and sort: by priority descending, then
\* by floor optimality
sortQueue(elevator, queue, requests) ==
    LET cmp == [a, b \in Range(queue) |->
                   IF requests[a].priority # requests[b].priority
                   THEN requests[b].priority - requests[a].priority
                   ELSE calculateFloorOptimality(elevator, requests[a].floor)
                        - calculateFloorOptimality(elevator, requests[b].floor)]
    IN  SortBy(queue, cmp)

\* ElevatorService.startMovingToFloor, up to its await
startMovingToFloor(elevator, targetFloor) ==
    LET direction == IF targetFloor > elevator.currentFloor THEN "UP" ELSE "DOWN"
    IN  [elevator EXCEPT !.targetFloor = targetFloor,
                         !.direction = direction,
                         !.state = IF direction = "UP" THEN "MOVING_UP"
                                   ELSE "MOVING_DOWN",
                         !.isMoving = FALSE]

\* ElevatorService.arriveAtFloor, up to its await
arriveAtFloor(elevator) ==
    [elevator EXCEPT !.currentFloor = elevator.targetFloor,
                     !.targetFloor = Null,
                     !.state = "DOOR_OPENING",
                     !.doorState = "OPENING",
                     !.isMoving = FALSE]

\* ElevatorService.startClosingDoors, up to its await
startClosingDoors(elevator) ==
    [elevator EXCEPT !.state = "DOOR_CLOSING", !.doorState = "CLOSING"]

\* ElevatorService.completeRequest: FloorRequest.findByPk(id) is a promise, so
\* `?.complete` on it is undefined and calling it throws a TypeError, which the
\* catch block logs; the row is left as it is
completeRequest(requests, r) == requests

(* ------------------------------- state -------------------------------- *)
\* a callElevator invocation that has not started
IdleCall == [pc |-> "idle", fromFloor |-> Null, toFloor |-> Null,
             direction |-> "NONE", priority |-> 0, request |-> Null,
             available |-> <<>>, loads |-> <<>>, elevatorId |-> Null,
             result |-> "none"]

\* no operator call is at its end
IdleOperator == [op |-> "none", elevatorId |-> Null, result |-> "none",
                 oldAlgorithm |-> "none"]

\* a status query that has not started
IdleStatus == [op |-> "none", pc |-> "idle", elevatorId |-> Null,
               pending |-> <<>>, statuses |-> <<>>, result |-> "none"]

\* the service after initialize: one interval runs processAllElevators
Running == [isInitialized |-> TRUE, loops |-> 1]

\* no instance has been cleared from the map
NoDetached == <<>>

\* no calculateEstimatedArrival has been asked for
NoEstimate == [pc |-> "idle", elevatorId |-> Null, floor |-> Null, elapsed |-> 0,
               totalTime |-> 0]

\* a row of table elevators as the seeder inserts it
SeedRow == [currentFloor |-> 1, targetFloor |-> Null, state |-> "IDLE",
            direction |-> "NONE", doorState |-> "CLOSED", isActive |-> TRUE,
            totalTrips |-> 0, totalFloorsTraveled |-> 0]

\* ElevatorService.initializeElevator: the in-memory instance of a row
initializeElevator(row) ==
    [currentFloor |-> row.currentFloor, targetFloor |-> row.targetFloor,
     state |-> row.state, direction |-> row.direction,
     doorState |-> row.doorState, isActive |-> row.isActive,
     queue |-> <<>>, isMoving |-> FALSE]

\* ElevatorService.initialize over the rows of a database, with nothing pending
initialize(db) ==
    /\ dbElevators = db
    /\ activeElevators = [u \in DOMAIN db |-> initializeElevator(db[u])]
    /\ movementTimers = [u \in DOMAIN db |-> FALSE]
    /\ orphanTimers = [u \in DOMAIN db |-> 0]
    /\ doorOpeningTimers = [u \in DOMAIN db |-> 0]
    /\ autoCloseTimers = [u \in DOMAIN db |-> 0]
    /\ doorClosingTimers = [u \in DOMAIN db |-> 0]
    /\ idleTasks = [u \in DOMAIN db |-> <<>>]
    /\ errors = [u \in DOMAIN db |-> 0]

\* the seeded deployment after startup: migrated schema (no unique index),
\* either algorithm the configuration accepts, one caller
Init ==
    /\ initialize([u \in 1..NumElevators |-> SeedRow])
    /\ floorRequests = <<>>
    /\ totalFloors = NumFloors
    /\ uniqueIndex = FALSE
    /\ algorithm \in SCHEDULING_ALGORITHMS
    /\ calls = [c \in {1} |-> IdleCall]
    /\ operatorCall = IdleOperator
    /\ statusCalls = [q \in {1} |-> IdleStatus]
    /\ service = Running
    /\ detached = NoDetached
    /\ estimate = NoEstimate

(* ---------------------------- callElevator ---------------------------- *)
unitVars == <<activeElevators, movementTimers, orphanTimers, doorOpeningTimers,
              autoCloseTimers, doorClosingTimers, idleTasks, dbElevators>>

\* callElevator invocations between their findOne and their create
Creating == {c \in CallIds : calls[c].pc = "findOne"}

\* no invocation and no operator call is at its return: an answer is handed
\* over before anything else runs
Ready ==
    /\ \A c \in CallIds : calls[c].pc # "done"
    /\ operatorCall.op = "none"

\* the invocation ends: it throws the error `result` or returns status `result`
Done(call, result) == [call EXCEPT !.pc = "done", !.result = result]

\* a validation that forgets the destination floor
invalidFloorNumber_FromOnly(fromFloor, toFloor) ==
    fromFloor < 1 \/ fromFloor > totalFloors

\* the floor validation of callElevator
invalidFloorNumber(fromFloor, toFloor) ==
    \/ fromFloor < 1 \/ fromFloor > totalFloors
    \/ toFloor < 1 \/ toFloor > totalFloors

\* callElevator from its entry to the await of FloorRequest.findOne, and, when
\* findOne finds an active row, on to the throw (an invocation that gets past
\* the validation keeps its arguments in its record)
CallStart(c, fromFloor, toFloor, priority) ==
    LET call == [calls[c] EXCEPT !.fromFloor = fromFloor, !.toFloor = toFloor]
        direction == IF fromFloor < toFloor THEN "UP" ELSE "DOWN"
    IN  /\ Ready
        /\ calls[c].pc = "idle"
        /\ IF invalidFloorNumber(fromFloor, toFloor)
           THEN calls' = [calls EXCEPT ![c] =
                    Done(calls[c], "Invalid floor number")]
           ELSE IF fromFloor = toFloor
           THEN calls' = [calls EXCEPT ![c] =
                    Done(calls[c], "From floor and to floor cannot be the same")]
           ELSE IF existingRequest(fromFloor, direction)
           THEN calls' = [calls EXCEPT ![c] =
                    Done([call EXCEPT !.direction = direction],
                         "Request already exists for this floor and direction")]
           ELSE /\ Len(floorRequests) + Cardinality(Creating) < MaxRequests
                /\ calls' = [calls EXCEPT ![c] =
                       [call EXCEPT !.pc = "findOne", !.direction = direction,
                                    !.priority = priority]]
        /\ UNCHANGED <<unitVars, floorRequests, configVars, algorithm,
                       operatorCall, statusCalls, lifecycleVars, errors,
                       estimate>>

\* the continuation of findOne (no row found): FloorRequest.create, which the
\* unique index, where the schema has it, refuses for a second active row
CallCreate(c) ==
    LET call == calls[c]
    IN  /\ Ready
        /\ call.pc = "findOne"
        /\ IF uniqueIndex /\ existingRequest(call.fromFloor, call.direction)
           THEN /\ calls' = [calls EXCEPT ![c] = Done(call, "Validation error")]
                /\ UNCHANGED floorRequests
           ELSE /\ floorRequests' = Append(floorRequests,
                       NewRequest(call.fromFloor, call.direction, call.priority))
                /\ calls' = [calls EXCEPT ![c] =
                       [call EXCEPT !.pc = "create",
                                    !.request = Len(floorRequests) + 1]]
        /\ UNCHANGED <<unitVars, configVars, algorithm, operatorCall, statusCalls,
                       lifecycleVars, errors, estimate>>

\* the continuation of create: assignElevator up to getAvailableElevators
CallGetAvailable(c) ==
    /\ Ready
    /\ calls[c].pc = "create"
    /\ calls' = [calls EXCEPT ![c] =
           [calls[c] EXCEPT !.pc = "getAvailable",
                            !.available = getAvailableElevators(dbElevators)]]
    /\ UNCHANGED <<unitVars, floorRequests, configVars, algorithm,
                   operatorCall, statusCalls, lifecycleVars, errors, estimate>>

\* assignElevator from the algorithm's answer on, then request.assign
Selected(c, selectedElevator) ==
    IF selectedElevator.id = Null
    THEN /\ calls' = [calls EXCEPT ![c] =
                Done(calls[c], "No suitable elevator found")]
         /\ UNCHANGED floorRequests
    ELSE /\ floorRequests' = assign(floorRequests, calls[c].request,
                                    selectedElevator.id)
         /\ calls' = [calls EXCEPT ![c] =
                [calls[c] EXCEPT !.pc = "assign",
                                 !.elevatorId = selectedElevator.id]]

\* an assignElevator that runs the algorithm on an empty list as well
noAvailableElevators_Never(availableElevators) == FALSE

\* the guard of assignElevator on what getAvailableElevators returned
noAvailableElevators(availableElevators) == Len(availableElevators) = 0

\* the continuation of getAvailableElevators: the switch on this.algorithm
CallDispatch(c) ==
    LET call == calls[c]
        request == floorRequests[call.request]
    IN  /\ Ready
        /\ call.pc = "getAvailable"
        /\ IF noAvailableElevators(call.available)
           THEN /\ calls' = [calls EXCEPT ![c] =
                       Done(call, "No available elevators")]
                /\ UNCHANGED floorRequests
           ELSE IF algorithm = "SCAN"
           THEN Selected(c, scanAlgorithm(request, call.available))
           ELSE IF algorithm = "LOOK"
           THEN /\ calls' = [calls EXCEPT ![c] =
                       [call EXCEPT !.pc = "loads",
                            !.loads = [i \in 1..Len(call.available) |->
                                requestLoad(floorRequests, call.available[i].id)]]]
                /\ UNCHANGED floorRequests
           ELSE Selected(c, nearestElevatorAlgorithm(request, call.available))
        /\ UNCHANGED <<unitVars, configVars, algorithm, operatorCall, statusCalls,
                       lifecycleVars, errors, estimate>>

\* lookAlgorithm from the continuation of getElevatorRequestLoads
CallLoad(c) ==
    LET call == calls[c]
    IN  /\ Ready
        /\ call.pc = "loads"
        /\ Selected(c, lookAlgorithm(floorRequests[call.request],
                                     call.available, call.loads))
        /\ UNCHANGED <<unitVars, configVars, algorithm, operatorCall, statusCalls,
                       lifecycleVars, errors, estimate>>

\* the continuation of request.assign: push on the elevator's queue and sort
CallEnqueue(c) ==
    LET call == calls[c]
        u == call.elevatorId
    IN  /\ Ready
        /\ call.pc = "assign"
        /\ IF u \in Elevators
           THEN activeElevators' = [activeElevators EXCEPT ![u].queue =
                    sortQueue(activeElevators[u],
                              Append(activeElevators[u].queue, call.request),
                              floorRequests)]
           ELSE UNCHANGED activeElevators
        /\ calls' = [calls EXCEPT ![c] = Done(call, "assigned")]
        /\ UNCHANGED <<timerVars, idleTasks, dbElevators, floorRequests,
                       configVars, algorithm, operatorCall, statusCalls,
                       lifecycleVars, errors, estimate>>

\* the caller has its answer; the slot is free for the next invocation
CallReturn(c) ==
    /\ calls[c].pc = "done"
    /\ calls' = [calls EXCEPT ![c] = IdleCall]
    /\ UNCHANGED <<unitVars, floorRequests, configVars, algorithm,
                   operatorCall, statusCalls, lifecycleVars, errors, estimate>>

(* ---------------------------- service loop ---------------------------- *)
\* what processElevatorMovement does for unit u on a tick
TickCase(u) ==
    LET e == activeElevators[u]
    IN  IF ~e.isActive THEN "skip"
        ELSE IF e.state = "IDLE"
        THEN IF Len(e.queue) = 0 THEN "fetch" ELSE "start"
        ELSE IF e.state \in {"MOVING_UP", "MOVING_DOWN"}
        THEN IF e.isMoving THEN "skip" ELSE "setTimer"
        ELSE IF e.state = "DOOR_OPENING" THEN "opening"
        ELSE IF e.state = "DOOR_CLOSING" THEN "closing"
        ELSE "skip"

\* the instance of unit u after the synchronous part of processElevatorMovement
TickElevator(u) ==
    LET e == activeElevators[u]
    IN  CASE TickCase(u) = "start" ->
                 startMovingToFloor(e, floorRequests[e.queue[1]].floor)
          [] TickCase(u) = "setTimer" -> [e EXCEPT !.isMoving = TRUE]
          [] OTHER -> e

\* one firing of the setInterval callback: processAllElevators runs every
\* active unit up to its first await
processAllElevators ==
    /\ Ready
    /\ service.loops > 0
    /\ \E u \in Elevators : TickCase(u) # "skip"
    /\ \A u \in Elevators :
          /\ TickCase(u) = "fetch" => Len(idleTasks[u]) < MaxIdleTasks
          /\ TickCase(u) = "setTimer" /\ movementTimers[u]
                => orphanTimers[u] < MaxTimers
          /\ TickCase(u) = "opening" => doorOpeningTimers[u] < MaxTimers
          /\ TickCase(u) = "closing" => doorClosingTimers[u] < MaxTimers
    /\ activeElevators' = [u \in Elevators |-> TickElevator(u)]
    /\ idleTasks' = [u \in Elevators |->
          IF TickCase(u) = "fetch"
          THEN Append(idleTasks[u], getNextRequests(floorRequests, u))
          ELSE idleTasks[u]]
    /\ movementTimers' = [u \in Elevators |->
          movementTimers[u] \/ TickCase(u) = "setTimer"]
    /\ orphanTimers' = [u \in Elevators |->
          IF TickCase(u) = "setTimer" /\ movementTimers[u]
          THEN orphanTimers[u] + 1 ELSE orphanTimers[u]]
    /\ doorOpeningTimers' = [u \in Elevators |->
          IF TickCase(u) = "opening"
          THEN doorOpeningTimers[u] + 1 ELSE doorOpeningTimers[u]]
    /\ doorClosingTimers' = [u \in Elevators |->
          IF TickCase(u) = "closing"
          THEN doorClosingTimers[u] + 1 ELSE doorClosingTimers[u]]
    /\ dbElevators' = [u \in Elevators |->
          IF TickCase(u) = "start"
          THEN updateElevatorInDatabase(dbElevators, u, TickElevator(u))[u]
          ELSE dbElevators[u]]
    /\ UNCHANGED <<autoCloseTimers, floorRequests, configVars, algorithm, calls,
                   operatorCall, statusCalls, lifecycleVars, errors, estimate>>

\* processIdleState from the continuation of getNextRequests
processIdleState(u) ==
    LET e == activeElevators[u]
        newRequests == Head(idleTasks[u])
        queue == e.queue \o newRequests
        pushed == [e EXCEPT !.queue = queue]
        next == IF Len(queue) > 0
                THEN startMovingToFloor(pushed, floorRequests[queue[1]].floor)
                ELSE pushed
    IN  /\ Ready
        /\ Len(idleTasks[u]) > 0
        /\ idleTasks' = [idleTasks EXCEPT ![u] = Tail(idleTasks[u])]
        /\ activeElevators' = [activeElevators EXCEPT ![u] = next]
        /\ dbElevators' = IF Len(queue) > 0
                          THEN updateElevatorInDatabase(dbElevators, u, next)
                          ELSE dbElevators
        /\ UNCHANGED <<timerVars, floorRequests, configVars, algorithm, calls,
                       operatorCall, statusCalls, lifecycleVars, errors,
                       estimate>>

(* ------------------------------- timers ------------------------------- *)
\* the movement timer that movementTimers holds fires: arriveAtFloor
MovementTimer(u) ==
    LET next == arriveAtFloor(activeElevators[u])
    IN  /\ Ready
        /\ movementTimers[u]
        /\ movementTimers' = [movementTimers EXCEPT ![u] = FALSE]
        /\ activeElevators' = [activeElevators EXCEPT ![u] = next]
        /\ dbElevators' = updateElevatorInDatabase(dbElevators, u, next)
        /\ UNCHANGED <<orphanTimers, doorOpeningTimers, autoCloseTimers,
                       doorClosingTimers, idleTasks, floorRequests, configVars,
                       algorithm, calls, operatorCall, statusCalls,
                       lifecycleVars, errors, estimate>>

\* a movement timer whose handle was overwritten in movementTimers fires:
\* arriveAtFloor, which clears the handle the map holds now
OrphanTimer(u) ==
    LET next == arriveAtFloor(activeElevators[u])
    IN  /\ Ready
        /\ orphanTimers[u] > 0
        /\ orphanTimers' = [orphanTimers EXCEPT ![u] = @ - 1]
        /\ movementTimers' = [movementTimers EXCEPT ![u] = FALSE]
        /\ activeElevators' = [activeElevators EXCEPT ![u] = next]
        /\ dbElevators' = updateElevatorInDatabase(dbElevators, u, next)
        /\ UNCHANGED <<doorOpeningTimers, autoCloseTimers, doorClosingTimers,
                       idleTasks, floorRequests, configVars, algorithm, calls,
                       operatorCall, statusCalls, lifecycleVars, errors,
                       estimate>>

\* a timer of processDoorOpeningState fires
DoorOpeningTimer(u) ==
    LET next == [activeElevators[u] EXCEPT !.state = "DOOR_OPEN",
                                           !.doorState = "OPEN"]
    IN  /\ Ready
        /\ doorOpeningTimers[u] > 0
        /\ autoCloseTimers[u] < MaxTimers
        /\ doorOpeningTimers' = [doorOpeningTimers EXCEPT ![u] = @ - 1]
        /\ autoCloseTimers' = [autoCloseTimers EXCEPT ![u] = @ + 1]
        /\ activeElevators' = [activeElevators EXCEPT ![u] = next]
        /\ dbElevators' = updateElevatorInDatabase(dbElevators, u, next)
        /\ UNCHANGED <<movementTimers, orphanTimers, doorClosingTimers,
                       idleTasks, floorRequests, configVars, algorithm, calls,
                       operatorCall, statusCalls, lifecycleVars, errors,
                       estimate>>

\* a 5 s auto-close timer fires
AutoCloseTimer(u) ==
    LET e == activeElevators[u]
        next == IF e.state = "DOOR_OPEN" THEN startClosingDoors(e) ELSE e
    IN  /\ Ready
        /\ autoCloseTimers[u] > 0
        /\ autoCloseTimers' = [autoCloseTimers EXCEPT ![u] = @ - 1]
        /\ activeElevators' = [activeElevators EXCEPT ![u] = next]
        /\ dbElevators' = IF e.state = "DOOR_OPEN"
                          THEN updateElevatorInDatabase(dbElevators, u, next)
                          ELSE dbElevators
        /\ UNCHANGED <<movementTimers, orphanTimers, doorOpeningTimers,
                       doorClosingTimers, idleTasks, floorRequests, configVars,
                       algorithm, calls, operatorCall, statusCalls,
                       lifecycleVars, errors, estimate>>

\* a timer of processDoorClosingState fires
DoorClosingTimer(u) ==
    LET e == activeElevators[u]
        next == [e EXCEPT !.state = "IDLE", !.doorState = "CLOSED",
                          !.direction = "NONE",
                          !.queue = IF Len(e.queue) > 0 THEN Tail(e.queue)
                                    ELSE e.queue]
    IN  /\ Ready
        /\ doorClosingTimers[u] > 0
        /\ doorClosingTimers' = [doorClosingTimers EXCEPT ![u] = @ - 1]
        /\ activeElevators' = [activeElevators EXCEPT ![u] = next]
        /\ floorRequests' = IF Len(e.queue) > 0
                            THEN completeRequest(floorRequests, Head(e.queue))
                            ELSE floorRequests
        /\ dbElevators' = updateElevatorInDatabase(dbElevators, u, next)
        /\ UNCHANGED <<movementTimers, orphanTimers, doorOpeningTimers,
                       autoCloseTimers, idleTasks, configVars, algorithm, calls,
                       operatorCall, statusCalls, lifecycleVars, errors,
                       estimate>>

(* ----------------------------- operators ------------------------------ *)
\* ids an operator may pass: the units of the fleet and one that is none
InputElevators == 1..(Cardinality(Elevators) + 1)

\* names an operator may pass to switchAlgorithm
AlgorithmNames == Algorithms \cup {"INVALID"}

\* the operator's call ends: it throws the error `result` or returns ("ok")
Returned(op, elevatorId, result, oldAlgorithm) ==
    [op |-> op, elevatorId |-> elevatorId, result |-> result,
     oldAlgorithm |-> oldAlgorithm]

\* an emergencyStop that empties the queue as setMaintenance does
emergencyStop_ClearsQueue(u) ==
    /\ Ready
    /\ IF u \notin Elevators
       THEN /\ operatorCall' = Returned("emergencyStop", u, "Elevator not found",
                                        "none")
            /\ UNCHANGED <<unitVars, floorRequests, configVars, algorithm, calls, statusCalls,
                           lifecycleVars, errors, estimate>>
       ELSE LET next == [activeElevators[u] EXCEPT !.state = "OUT_OF_SERVICE",
                                                   !.direction = "NONE",
                                                   !.isMoving = FALSE,
                                                   !.isActive = FALSE,
                                                   !.queue = <<>>]
            IN  /\ movementTimers' = [movementTimers EXCEPT ![u] = FALSE]
                /\ activeElevators' = [activeElevators EXCEPT ![u] = next]
                /\ dbElevators' = updateElevatorInDatabase(dbElevators, u, next)
                /\ operatorCall' = Returned("emergencyStop", u, "ok", "none")
                /\ UNCHANGED <<orphanTimers, doorOpeningTimers, autoCloseTimers,
                               doorClosingTimers, idleTasks, floorRequests,
                               configVars, algorithm, calls, statusCalls,
                               lifecycleVars, errors, estimate>>

\* ElevatorService.emergencyStop
emergencyStop(u) ==
    /\ Ready
    /\ IF u \notin Elevators
       THEN /\ operatorCall' = Returned("emergencyStop", u, "Elevator not found",
                                        "none")
            /\ UNCHANGED <<unitVars, floorRequests, configVars, algorithm, calls, statusCalls,
                           lifecycleVars, errors, estimate>>
       ELSE LET next == [activeElevators[u] EXCEPT !.state = "OUT_OF_SERVICE",
                                                   !.direction = "NONE",
                                                   !.isMoving = FALSE,
                                                   !.isActive = FALSE]
            IN  /\ movementTimers' = [movementTimers EXCEPT ![u] = FALSE]
                /\ activeElevators' = [activeElevators EXCEPT ![u] = next]
                /\ dbElevators' = updateElevatorInDatabase(dbElevators, u, next)
                /\ operatorCall' = Returned("emergencyStop", u, "ok", "none")
                /\ UNCHANGED <<orphanTimers, doorOpeningTimers, autoCloseTimers,
                               doorClosingTimers, idleTasks, floorRequests,
                               configVars, algorithm, calls, statusCalls,
                               lifecycleVars, errors, estimate>>

\* ElevatorService.setMaintenance: after its update of the unit,
\* `Elevator.findByPk(elevatorId)?.setMaintenance()` calls a method a promise
\* does not have, and the call ends with that TypeError
setMaintenance(u) ==
    /\ Ready
    /\ IF u \notin Elevators
       THEN /\ operatorCall' = Returned("setMaintenance", u, "Elevator not found",
                                        "none")
            /\ UNCHANGED <<unitVars, floorRequests, configVars, algorithm, calls, statusCalls,
                           lifecycleVars, errors, estimate>>
       ELSE LET next == [activeElevators[u] EXCEPT !.state = "MAINTENANCE",
                                                   !.isActive = FALSE,
                                                   !.queue = <<>>]
            IN  /\ activeElevators' = [activeElevators EXCEPT ![u] = next]
                /\ dbElevators' = updateElevatorInDatabase(dbElevators, u, next)
                /\ operatorCall' = Returned("setMaintenance", u, "TypeError",
                                            "none")
                /\ UNCHANGED <<timerVars, idleTasks, floorRequests, configVars,
                               algorithm, calls, statusCalls, lifecycleVars,
                               errors, estimate>>

\* a switchAlgorithm that takes any name
validAlgorithm_Any(newAlgorithm) == TRUE

\* a switchAlgorithm that knows of SCAN alone
validAlgorithm_ScanOnly(newAlgorithm) == newAlgorithm = "SCAN"

\* the test switchAlgorithm makes of a name: Object.values(SCHEDULING_ALGORITHMS).includes
validAlgorithm(newAlgorithm) == newAlgorithm \in SCHEDULING_ALGORITHMS

\* SchedulingService.switchAlgorithm
switchAlgorithm(newAlgorithm) ==
    /\ Ready
    /\ IF ~validAlgorithm(newAlgorithm)
       THEN /\ operatorCall' = Returned("switchAlgorithm", Null,
                                        "Invalid scheduling algorithm", "none")
            /\ UNCHANGED algorithm
       ELSE /\ algorithm' = newAlgorithm
            /\ operatorCall' = Returned("switchAlgorithm", Null, "ok", algorithm)
    /\ UNCHANGED <<unitVars, floorRequests, configVars, calls, statusCalls,
                   lifecycleVars, errors, estimate>>

\* the operator has the answer
OperatorReturn ==
    /\ operatorCall.op # "none"
    /\ operatorCall' = IdleOperator
    /\ UNCHANGED <<unitVars, floorRequests, configVars, algorithm, calls, statusCalls,
                   lifecycleVars, errors, estimate>>

(* --------------------------- status queries --------------------------- *)
\* the fields both queries copy from the instance of unit u (lastUpdate is a
\* clock reading, and totalTrips, totalFloorsTraveled and averageWaitTime are
\* columns the service never writes: they are left out)
statusFields(u) ==
    LET e == activeElevators[u]
    IN  [id |-> u, currentFloor |-> e.currentFloor,
         targetFloor |-> e.targetFloor, state |-> e.state,
         direction |-> e.direction, doorState |-> e.doorState,
         isActive |-> e.isActive]

\* the entry getAllElevatorStatuses pushes for unit u
allStatusEntry(u) ==
    LET queue == activeElevators[u].queue
    IN  [unit |-> statusFields(u), queueLength |-> Len(queue),
         nextFloors |-> [i \in DOMAIN Take(queue, 3) |->
                            floorRequests[queue[i]].floor]]

\* the object getElevatorStatus returns for unit u
unitStatus(u) ==
    [unit |-> statusFields(u), queue |-> activeElevators[u].queue]

\* the ids of activeElevators in the order the map is iterated
ElevatorOrder == [i \in 1..Cardinality(Elevators) |-> i]

\* getAllElevatorStatuses from its entry to the await of the first findByPk
getAllElevatorStatuses(q) ==
    /\ Ready
    /\ statusCalls[q].pc = "idle"
    /\ statusCalls' = [statusCalls EXCEPT ![q] =
          [op |-> "getAllElevatorStatuses", pc |-> "findByPk",
           elevatorId |-> Head(ElevatorOrder), pending |-> Tail(ElevatorOrder),
           statuses |-> <<>>, result |-> "none"]]
    /\ UNCHANGED <<unitVars, floorRequests, configVars, algorithm, calls,
                   operatorCall, lifecycleVars, errors, estimate>>

\* a loop body that takes the next floors off the queue (splice for slice)
pushStatus_Splice(u) ==
    /\ activeElevators' = [activeElevators EXCEPT ![u].queue =
                               SubSeq(@, Len(Take(@, 3)) + 1, Len(@))]
    /\ UNCHANGED <<timerVars, idleTasks, dbElevators, floorRequests>>

\* what the loop body of getAllElevatorStatuses does to the fleet and to the
\* ledger: it reads them
pushStatus(u) == UNCHANGED <<unitVars, floorRequests>>

\* getAllElevatorStatuses from the continuation of findByPk: push the entry of
\* the unit, then the findByPk of the next unit, or return after the last
getAllElevatorStatusesNext(q) ==
    LET call == statusCalls[q]
        u == call.elevatorId
        statuses == Append(call.statuses, allStatusEntry(u))
    IN  /\ Ready
        /\ call.pc = "findByPk"
        /\ call.op = "getAllElevatorStatuses"
        /\ statusCalls' = [statusCalls EXCEPT ![q] =
              IF call.pending = <<>>
              THEN [call EXCEPT !.pc = "done", !.result = "ok",
                                !.statuses = statuses]
              ELSE [call EXCEPT !.elevatorId = Head(call.pending),
                                !.pending = Tail(call.pending),
                                !.statuses = statuses]]
        /\ pushStatus(u)
        /\ UNCHANGED <<configVars, algorithm, calls, operatorCall,
                       lifecycleVars, errors, estimate>>

\* a getElevatorStatus that answers an unknown id with nothing instead of an
\* error
getElevatorStatus_Null(q, u) ==
    /\ Ready
    /\ statusCalls[q].pc = "idle"
    /\ statusCalls' = [statusCalls EXCEPT ![q] =
          IF u \notin Elevators
          THEN [IdleStatus EXCEPT !.op = "getElevatorStatus", !.pc = "done",
                                 !.elevatorId = u, !.result = "ok"]
          ELSE [IdleStatus EXCEPT !.op = "getElevatorStatus",
                                 !.pc = "findByPk", !.elevatorId = u]]
    /\ UNCHANGED <<unitVars, floorRequests, configVars, algorithm, calls,
                   operatorCall, lifecycleVars, errors, estimate>>

\* getElevatorStatus from its entry to the throw or to the await of findByPk
getElevatorStatus(q, u) ==
    /\ Ready
    /\ statusCalls[q].pc = "idle"
    /\ statusCalls' = [statusCalls EXCEPT ![q] =
          IF u \notin Elevators
          THEN [IdleStatus EXCEPT !.op = "getElevatorStatus", !.pc = "done",
                                 !.elevatorId = u,
                                 !.result = "Elevator not found"]
          ELSE [IdleStatus EXCEPT !.op = "getElevatorStatus",
                                 !.pc = "findByPk", !.elevatorId = u]]
    /\ UNCHANGED <<unitVars, floorRequests, configVars, algorithm, calls,
                   operatorCall, lifecycleVars, errors, estimate>>

\* getElevatorStatus from the continuation of findByPk to its return
getElevatorStatusReturn(q) ==
    LET call == statusCalls[q]
    IN  /\ Ready
        /\ call.pc = "findByPk"
        /\ call.op = "getElevatorStatus"
        /\ statusCalls' = [statusCalls EXCEPT ![q] =
              [call EXCEPT !.pc = "done", !.result = "ok",
                           !.statuses = <<unitStatus(call.elevatorId)>>]]
        /\ UNCHANGED <<unitVars, floorRequests, configVars, algorithm, calls,
                       operatorCall, lifecycleVars, errors, estimate>>

\* the caller has the answer of its query
StatusReturn(q) ==
    /\ statusCalls[q].pc = "done"
    /\ statusCalls' = [statusCalls EXCEPT ![q] = IdleStatus]
    /\ UNCHANGED <<unitVars, floorRequests, configVars, algorithm, calls,
                   operatorCall, lifecycleVars, errors, estimate>>

(* ------------------------ shutdown and restart ------------------------ *)
\* what closures still hold of unit u once the map is cleared: the instance,
\* the processIdleState tasks suspended on it and the door timers, which
\* shutdown does not clear (it clears the handles of movementTimers only; a
\* deployment without callers has no movement timer but those)
Detach(elevator, u) ==
    [elevator |-> elevator, idleTasks |-> idleTasks[u],
     doorOpeningTimers |-> doorOpeningTimers[u],
     autoCloseTimers |-> autoCloseTimers[u],
     doorClosingTimers |-> doorClosingTimers[u]]

\* the units whose detached instance has a task or a timer pending
Stale ==
    {u \in DOMAIN detached :
        \/ Len(detached[u].idleTasks) > 0
        \/ detached[u].doorOpeningTimers > 0
        \/ detached[u].autoCloseTimers > 0
        \/ detached[u].doorClosingTimers > 0}

\* ElevatorService.shutdown, its awaited row writes included (they are taken
\* to finish before the next tick or timer): clear the handles of
\* movementTimers, put every instance in IDLE and write its row, clear the
\* map.  The interval of startServiceLoop is not cleared.
shutdown ==
    LET stopped == [u \in Elevators |->
                       [activeElevators[u] EXCEPT !.state = "IDLE",
                                                  !.direction = "NONE",
                                                  !.isMoving = FALSE]]
    IN  /\ Ready
        /\ Stale = {}
        /\ movementTimers' = [u \in DOMAIN movementTimers |-> FALSE]
        /\ dbElevators' = [u \in DOMAIN dbElevators |->
              IF u \in Elevators
              THEN updateElevatorInDatabase(dbElevators, u, stopped[u])[u]
              ELSE dbElevators[u]]
        /\ detached' = [u \in Elevators |-> Detach(stopped[u], u)]
        /\ activeElevators' = <<>>
        /\ orphanTimers' = [u \in DOMAIN orphanTimers |-> 0]
        /\ doorOpeningTimers' = [u \in DOMAIN doorOpeningTimers |-> 0]
        /\ autoCloseTimers' = [u \in DOMAIN autoCloseTimers |-> 0]
        /\ doorClosingTimers' = [u \in DOMAIN doorClosingTimers |-> 0]
        /\ idleTasks' = [u \in DOMAIN idleTasks |-> <<>>]
        /\ service' = [service EXCEPT !.isInitialized = FALSE]
        /\ UNCHANGED <<floorRequests, configVars, algorithm, calls,
                       operatorCall, statusCalls, errors, estimate>>

\* ElevatorService.initialize on a service that is not initialized: load the
\* active rows, build their instances, start one more interval
initializeService ==
    /\ Ready
    /\ ~service.isInitialized
    /\ service.loops < MaxLoops
    /\ activeElevators' =
          [u \in {v \in DOMAIN dbElevators : dbElevators[v].isActive} |->
              initializeElevator(dbElevators[u])]
    /\ service' = [isInitialized |-> TRUE, loops |-> service.loops + 1]
    /\ UNCHANGED <<timerVars, idleTasks, dbElevators, floorRequests,
                   configVars, algorithm, calls, operatorCall, statusCalls,
                   detached, errors, estimate>>

\* what every step on a detached instance leaves alone
liveVars == <<activeElevators, orphanTimers, doorOpeningTimers,
              autoCloseTimers, doorClosingTimers, idleTasks, floorRequests,
              configVars, algorithm, calls, operatorCall, statusCalls,
              service>>

\* processIdleState resumes on a detached instance
DetachedIdleTask(u) ==
    LET d == detached[u]
        queue == d.elevator.queue \o Head(d.idleTasks)
        pushed == [d.elevator EXCEPT !.queue = queue]
        next == IF Len(queue) > 0
                THEN startMovingToFloor(pushed, floorRequests[queue[1]].floor)
                ELSE pushed
    IN  /\ Ready
        /\ Len(d.idleTasks) > 0
        /\ detached' = [detached EXCEPT ![u].elevator = next,
                                        ![u].idleTasks = Tail(d.idleTasks)]
        /\ dbElevators' = IF Len(queue) > 0
                          THEN updateElevatorInDatabase(dbElevators, u, next)
                          ELSE dbElevators
        /\ UNCHANGED <<liveVars, movementTimers, errors, estimate>>

\* a timer of processDoorOpeningState fires on a detached instance
DetachedDoorOpeningTimer(u) ==
    LET next == [detached[u].elevator EXCEPT !.state = "DOOR_OPEN",
                                             !.doorState = "OPEN"]
    IN  /\ Ready
        /\ detached[u].doorOpeningTimers > 0
        /\ detached[u].autoCloseTimers < MaxTimers
        /\ detached' = [detached EXCEPT ![u].elevator = next,
                                        ![u].doorOpeningTimers = @ - 1,
                                        ![u].autoCloseTimers = @ + 1]
        /\ dbElevators' = updateElevatorInDatabase(dbElevators, u, next)
        /\ UNCHANGED <<liveVars, movementTimers, errors, estimate>>

\* a 5 s auto-close timer fires on a detached instance
DetachedAutoCloseTimer(u) ==
    LET e == detached[u].elevator
        next == IF e.state = "DOOR_OPEN" THEN startClosingDoors(e) ELSE e
    IN  /\ Ready
        /\ detached[u].autoCloseTimers > 0
        /\ detached' = [detached EXCEPT ![u].elevator = next,
                                        ![u].autoCloseTimers = @ - 1]
        /\ dbElevators' = IF e.state = "DOOR_OPEN"
                          THEN updateElevatorInDatabase(dbElevators, u, next)
                          ELSE dbElevators
        /\ UNCHANGED <<liveVars, movementTimers, errors, estimate>>

\* a timer of processDoorClosingState fires on a detached instance (its
\* completeRequest leaves the ledger as it is)
DetachedDoorClosingTimer(u) ==
    LET e == detached[u].elevator
        next == [e EXCEPT !.state = "IDLE", !.doorState = "CLOSED",
                          !.direction = "NONE",
                          !.queue = IF Len(e.queue) > 0 THEN Tail(e.queue)
                                    ELSE e.queue]
    IN  /\ Ready
        /\ detached[u].doorClosingTimers > 0
        /\ detached' = [detached EXCEPT ![u].elevator = next,
                                        ![u].doorClosingTimers = @ - 1]
        /\ dbElevators' = updateElevatorInDatabase(dbElevators, u, next)
        /\ UNCHANGED <<liveVars, movementTimers, errors, estimate>>

(* --------------------------- specifications --------------------------- *)
\* the steps a started invocation takes by itself
CallStep(c) ==
    \/ CallCreate(c)
    \/ CallGetAvailable(c)
    \/ CallDispatch(c)
    \/ CallLoad(c)
    \/ CallEnqueue(c)
    \/ CallReturn(c)

\* the pending continuations and timers of unit u
TimerStep(u) ==
    \/ processIdleState(u)
    \/ MovementTimer(u)
    \/ OrphanTimer(u)
    \/ DoorOpeningTimer(u)
    \/ AutoCloseTimer(u)
    \/ DoorClosingTimer(u)

\* the deployment at work: callers, the service loop and its timers, and the
\* operator's stop and maintenance calls
Next ==
    \/ \E c \in CallIds, fromFloor, toFloor \in InputFloors,
          priority \in Priorities : CallStart(c, fromFloor, toFloor, priority)
    \/ \E c \in CallIds : CallCreate(c)
    \/ \E c \in CallIds : CallGetAvailable(c)
    \/ \E c \in CallIds : CallDispatch(c)
    \/ \E c \in CallIds : CallLoad(c)
    \/ \E c \in CallIds : CallEnqueue(c)
    \/ \E c \in CallIds : CallReturn(c)
    \/ processAllElevators
    \/ \E u \in Elevators : processIdleState(u)
    \/ \E u \in Elevators : MovementTimer(u)
    \/ \E u \in Elevators : OrphanTimer(u)
    \/ \E u \in Elevators : DoorOpeningTimer(u)
    \/ \E u \in Elevators : AutoCloseTimer(u)
    \/ \E u \in Elevators : DoorClosingTimer(u)
    \/ \E u \in InputElevators : emergencyStop(u)
    \/ \E u \in InputElevators : setMaintenance(u)
    \/ OperatorReturn

Spec == Init /\ [][Next]_vars

\* concurrent callers between two ticks of the service loop, on either schema
\* (migrated: no unique index; synced from the model: with it)
RaceInit ==
    /\ initialize([u \in 1..NumElevators |-> SeedRow])
    /\ floorRequests = <<>>
    /\ totalFloors = NumFloors
    /\ uniqueIndex \in BOOLEAN
    /\ algorithm \in Algorithms
    /\ calls = [c \in 1..MaxCalls |-> IdleCall]
    /\ operatorCall = IdleOperator
    /\ statusCalls = [q \in {1} |-> IdleStatus]
    /\ service = Running
    /\ detached = NoDetached
    /\ estimate = NoEstimate

RaceNext ==
    \/ \E c \in CallIds, fromFloor, toFloor \in InputFloors,
          priority \in Priorities : CallStart(c, fromFloor, toFloor, priority)
    \/ \E c \in CallIds : CallCreate(c)
    \/ \E c \in CallIds : CallGetAvailable(c)
    \/ \E c \in CallIds : CallDispatch(c)
    \/ \E c \in CallIds : CallLoad(c)
    \/ \E c \in CallIds : CallEnqueue(c)
    \/ \E c \in CallIds : CallReturn(c)
    \/ \E u \in InputElevators : emergencyStop(u)
    \/ \E u \in InputElevators : setMaintenance(u)
    \/ OperatorReturn
    \/ \E newAlgorithm \in AlgorithmNames : switchAlgorithm(newAlgorithm)

RaceSpec == RaceInit /\ [][RaceNext]_vars

\* the service loop without operator calls.  The interval timer keeps firing,
\* a scheduled timer fires and a pending continuation runs, whatever callers
\* do in between: strong fairness, because a caller's return (Ready) only
\* interleaves with these steps and cannot starve them
LoopNext ==
    \/ \E c \in CallIds, fromFloor, toFloor \in InputFloors,
          priority \in Priorities : CallStart(c, fromFloor, toFloor, priority)
    \/ \E c \in CallIds : CallCreate(c)
    \/ \E c \in CallIds : CallGetAvailable(c)
    \/ \E c \in CallIds : CallDispatch(c)
    \/ \E c \in CallIds : CallLoad(c)
    \/ \E c \in CallIds : CallEnqueue(c)
    \/ \E c \in CallIds : CallReturn(c)
    \/ processAllElevators
    \/ \E u \in Elevators : processIdleState(u)
    \/ \E u \in Elevators : MovementTimer(u)
    \/ \E u \in Elevators : OrphanTimer(u)
    \/ \E u \in Elevators : DoorOpeningTimer(u)
    \/ \E u \in Elevators : AutoCloseTimer(u)
    \/ \E u \in Elevators : DoorClosingTimer(u)

FairSpec ==
    /\ Init
    /\ [][LoopNext]_vars
    /\ SF_vars(processAllElevators)
    /\ \A u \in 1..NumElevators : SF_vars(TimerStep(u))
    /\ SF_vars(\E c \in CallIds : CallStep(c))

\* the service loop with shutdown and restart, without callers: the seeded
\* deployment started on a ledger that is empty or holds one request assigned
\* to unit 1, which the first idle tick fetches (no call is pushed on a queue
\* behind a suspended task, so no movement timer loses its handle)
LifecycleInit ==
    /\ initialize([u \in 1..NumElevators |-> SeedRow])
    /\ totalFloors = NumFloors
    /\ floorRequests \in {<<>>} \cup
          {<<[floor |-> f, direction |-> d, priority |-> 0,
              status |-> "ASSIGNED", elevatorId |-> 1]>> :
              f \in 1..NumFloors, d \in {"UP", "DOWN"}}
    /\ uniqueIndex = FALSE
    /\ algorithm \in SCHEDULING_ALGORITHMS
    /\ calls = [c \in {1} |-> IdleCall]
    /\ operatorCall = IdleOperator
    /\ statusCalls = [q \in {1} |-> IdleStatus]
    /\ service = Running
    /\ detached = NoDetached
    /\ estimate = NoEstimate

LifecycleNext ==
    \/ processAllElevators
    \/ \E u \in Elevators : processIdleState(u)
    \/ \E u \in Elevators : MovementTimer(u)
    \/ \E u \in Elevators : DoorOpeningTimer(u)
    \/ \E u \in Elevators : AutoCloseTimer(u)
    \/ \E u \in Elevators : DoorClosingTimer(u)
    \/ shutdown
    \/ initializeService
    \/ \E u \in DOMAIN detached : DetachedIdleTask(u)
    \/ \E u \in DOMAIN detached : DetachedDoorOpeningTimer(u)
    \/ \E u \in DOMAIN detached : DetachedAutoCloseTimer(u)
    \/ \E u \in DOMAIN detached : DetachedDoorClosingTimer(u)

LifecycleSpec == LifecycleInit /\ [][LifecycleNext]_vars

(* ------------------------- dispatch on any fleet ----------------------- *)
\* rows a fleet can show to the dispatch engine: parked, travelling either
\* way, out of service, in maintenance or deactivated
FleetRows ==
    {[currentFloor |-> f, targetFloor |-> Null, state |-> sd[1],
      direction |-> sd[2], doorState |-> "CLOSED", isActive |-> a,
      totalTrips |-> 0, totalFloorsTraveled |-> 0] :
        f \in 1..DispatchFloors,
        sd \in {<<"IDLE", "NONE">>, <<"MOVING_UP", "UP">>,
                <<"MOVING_DOWN", "DOWN">>, <<"OUT_OF_SERVICE", "NONE">>,
                <<"MAINTENANCE", "NONE">>},
        a \in {TRUE}}
    \cup {[SeedRow EXCEPT !.isActive = FALSE]}

\* ledgers the engine can find: empty, or one row in service on some unit
FleetLedgers ==
    {<<>>} \cup
    {<<[floor |-> f, direction |-> d, priority |-> 0, status |-> "ASSIGNED",
        elevatorId |-> u]>> :
        f \in 1..DispatchFloors, d \in {"UP", "DOWN"}, u \in 1..FleetSize}

DispatchInit ==
    /\ \E db \in [1..FleetSize -> FleetRows] : initialize(db)
    /\ floorRequests \in FleetLedgers
    /\ totalFloors = DispatchFloors
    /\ uniqueIndex = FALSE
    /\ algorithm \in Algorithms
    /\ calls = [c \in {1} |-> IdleCall]
    /\ operatorCall = IdleOperator
    /\ statusCalls = [q \in {1} |-> IdleStatus]
    /\ service = Running
    /\ detached = NoDetached
    /\ estimate = NoEstimate

DispatchNext ==
    \/ \E c \in CallIds, fromFloor, toFloor \in InputFloors,
          priority \in Priorities : CallStart(c, fromFloor, toFloor, priority)
    \/ \E c \in CallIds : CallCreate(c)
    \/ \E c \in CallIds : CallGetAvailable(c)
    \/ \E c \in CallIds : CallDispatch(c)
    \/ \E c \in CallIds : CallLoad(c)
    \/ \E c \in CallIds : CallEnqueue(c)
    \/ \E c \in CallIds : CallReturn(c)

DispatchSpec == DispatchInit /\ [][DispatchNext]_vars

(* ----------------------- operator calls on any fleet ------------------- *)
\* the request unit u may be serving: a call at the bottom floor or at the top
TripRows(u) ==
    {[floor |-> 1, direction |-> "UP", priority |-> 0, status |-> "ASSIGNED",
      elevatorId |-> u],
     [floor |-> totalFloors, direction |-> "DOWN", priority |-> 0,
      status |-> "ASSIGNED", elevatorId |-> u]}

\* the instances unit u passes through in service of request u of the ledger:
\* parked with or without it in the queue, assigned its floor as target (before
\* and after the movement timer is set), and at that floor with the doors
\* opening, open or closing
UnitStates(u, request) ==
    LET parked == [currentFloor |-> 1, targetFloor |-> Null, state |-> "IDLE",
                   direction |-> "NONE", doorState |-> "CLOSED",
                   isActive |-> TRUE, queue |-> <<>>, isMoving |-> FALSE]
        idle == {[parked EXCEPT !.currentFloor = f, !.queue = q] :
                    f \in 1..totalFloors, q \in {<<>>, <<u>>}}
        from == {[parked EXCEPT !.currentFloor = f, !.queue = <<u>>] :
                    f \in (1..totalFloors) \ {request.floor}}
        moving == {[startMovingToFloor(e, request.floor)
                       EXCEPT !.isMoving = m] : e \in from, m \in BOOLEAN}
        arrived == {arriveAtFloor(e) : e \in moving}
        open == {[e EXCEPT !.state = "DOOR_OPEN", !.doorState = "OPEN"] :
                    e \in arrived}
        closing == {startClosingDoors(e) : e \in open}
    IN  idle \cup moving \cup arrived \cup open \cup closing

\* the elevators row of an instance
RowOf(elevator) ==
    [currentFloor |-> elevator.currentFloor,
     targetFloor |-> elevator.targetFloor, state |-> elevator.state,
     direction |-> elevator.direction, doorState |-> elevator.doorState,
     isActive |-> TRUE, totalTrips |-> 0, totalFloorsTraveled |-> 0]

\* a fleet in service, each unit anywhere on its trip, with the movement timer
\* of a unit pending where processMovingState has set it
FleetInService ==
    /\ totalFloors = NumFloors
    /\ floorRequests \in {ledger \in [1..FleetSize -> UNION {TripRows(u) :
                                                   u \in 1..FleetSize}] :
                              \A u \in 1..FleetSize : ledger[u].elevatorId = u}
    /\ activeElevators \in [1..FleetSize -> UNION {UnitStates(u, floorRequests[u]) :
                                                    u \in 1..FleetSize}]
    /\ \A u \in 1..FleetSize :
          activeElevators[u] \in UnitStates(u, floorRequests[u])
    /\ dbElevators = [u \in 1..FleetSize |-> RowOf(activeElevators[u])]
    /\ movementTimers = [u \in 1..FleetSize |-> activeElevators[u].isMoving]
    /\ orphanTimers = [u \in 1..FleetSize |-> 0]
    /\ doorOpeningTimers = [u \in 1..FleetSize |-> 0]
    /\ autoCloseTimers = [u \in 1..FleetSize |-> 0]
    /\ doorClosingTimers = [u \in 1..FleetSize |-> 0]
    /\ idleTasks = [u \in 1..FleetSize |-> <<>>]
    /\ errors = [u \in 1..FleetSize |-> 0]
    /\ uniqueIndex = FALSE
    /\ algorithm \in SCHEDULING_ALGORITHMS
    /\ calls = [c \in {1} |-> IdleCall]
    /\ operatorCall = IdleOperator

\* one operator and one status query at a time
OperatorInit ==
    /\ FleetInService
    /\ statusCalls = [q \in {1} |-> IdleStatus]
    /\ service = Running
    /\ detached = NoDetached
    /\ estimate = NoEstimate

\* the operator's calls, one after the other, and the status queries
OperatorNext ==
    \/ \E u \in InputElevators : emergencyStop(u)
    \/ \E u \in InputElevators : setMaintenance(u)
    \/ \E newAlgorithm \in AlgorithmNames : switchAlgorithm(newAlgorithm)
    \/ OperatorReturn
    \/ \E q \in StatusIds : getAllElevatorStatuses(q)
    \/ \E q \in StatusIds : getAllElevatorStatusesNext(q)
    \/ \E q \in StatusIds, u \in InputElevators : getElevatorStatus(q, u)
    \/ \E q \in StatusIds : getElevatorStatusReturn(q)
    \/ \E q \in StatusIds : StatusReturn(q)

OperatorSpec == OperatorInit /\ [][OperatorNext]_vars

\* status queries alone, on any fleet: nothing else touches the units
StatusNext ==
    \/ \E q \in StatusIds : getAllElevatorStatuses(q)
    \/ \E q \in StatusIds : getAllElevatorStatusesNext(q)
    \/ \E q \in StatusIds, u \in InputElevators : getElevatorStatus(q, u)
    \/ \E q \in StatusIds : getElevatorStatusReturn(q)
    \/ \E q \in StatusIds : StatusReturn(q)

StatusInit ==
    /\ FleetInService
    /\ statusCalls = [q \in 1..MaxStatusCalls |-> IdleStatus]
    /\ service = Running
    /\ detached = NoDetached
    /\ estimate = NoEstimate

StatusSpec == StatusInit /\ [][StatusNext]_vars

(* ------------------------------- claims ------------------------------- *)
DuplicateRequest == "Request already exists for this floor and direction"

InvalidFloor == {"Invalid floor number",
                 "From floor and to floor cannot be the same"}

\* the active rows of the ledger for a (floor, direction) pair
ActiveRows(floor, direction) ==
    {r \in RequestIds : /\ floorRequests[r].floor = floor
                        /\ floorRequests[r].direction = direction
                        /\ floorRequests[r].status \in ActiveStatuses}

Queues == [u \in Elevators |-> activeElevators[u].queue]

\* C1: in every reachable state, also when callElevator invocations for the
\* same (floor, direction) interleave at their awaits, at most one request
\* with status PENDING, ASSIGNED or IN_PROGRESS exists for each pair.
C1_AtMostOneActive ==
    \A r \in RequestIds :
        Cardinality(ActiveRows(floorRequests[r].floor,
                               floorRequests[r].direction)) <= 1

\* C2: a callElevator issued while a request for its (floor, direction) is
\* active is rejected as a duplicate, and the rejection creates no request
\* and changes no unit's queue.
C2_DuplicateRejected ==
    [][\A c \in CallIds :
          (/\ calls[c].pc = "idle"
           /\ calls'[c].pc # "idle"
           /\ calls'[c].result \notin InvalidFloor
           /\ ActiveRows(calls'[c].fromFloor, calls'[c].direction) # {})
          => /\ calls'[c].pc = "done"
             /\ calls'[c].result = DuplicateRequest
             /\ floorRequests' = floorRequests
             /\ Queues' = Queues]_vars

C2_Witness ==
    \E c \in CallIds : /\ calls[c].pc = "done"
                       /\ calls[c].result = DuplicateRequest
                       /\ ActiveRows(calls[c].fromFloor, calls[c].direction) # {}

\* C4: a callElevator whose fromFloor or toFloor is outside 1..totalFloors, or
\* whose floors are equal, fails with an invalid-floor error before any
\* mutation: every invocation either fails so with the ledger, the units and
\* their rows untouched, or has arguments that are valid.
C4_InvalidFloorRejected ==
    [][\A c \in CallIds :
          (calls[c].pc = "idle" /\ calls'[c].pc # "idle")
          => IF calls'[c].result \in InvalidFloor
             THEN /\ calls'[c].pc = "done"
                  /\ floorRequests' = floorRequests
                  /\ activeElevators' = activeElevators
                  /\ dbElevators' = dbElevators
             ELSE /\ calls'[c].fromFloor \in 1..totalFloors
                  /\ calls'[c].toFloor \in 1..totalFloors
                  /\ calls'[c].fromFloor # calls'[c].toFloor]_vars

C4_Witness ==
    \E c \in CallIds : /\ calls[c].pc = "done"
                       /\ calls[c].result = "Invalid floor number"
                       /\ floorRequests # <<>>

\* the invocations that assignElevator has answered or is about to
Dispatched(c) ==
    \/ calls[c].pc \in {"loads", "assign"}
    \/ /\ calls[c].pc = "done"
       /\ calls[c].result \in {"assigned", "No suitable elevator found"}

\* C8: for every request and every non-empty list of available units,
\* assignElevator under SCAN, LOOK and the nearest-unit default returns the id
\* of a member of the list, and the single idle unit when that is the list.
C8_ReturnsMember ==
    \A c \in CallIds :
        LET call == calls[c]
            ids == {call.available[i].id : i \in DOMAIN call.available}
        IN  /\ (call.pc = "done" /\ call.available # <<>>)
                => call.result # "No suitable elevator found"
            /\ (call.pc = "assign" \/ (call.pc = "done" /\ call.result = "assigned"))
                => call.elevatorId \in ids
            /\ (/\ call.pc = "assign"
                /\ Len(call.available) = 1
                /\ call.available[1].direction = "NONE")
                => call.elevatorId = call.available[1].id

C8_Witness ==
    \E c \in CallIds : /\ calls[c].pc = "assign"
                       /\ Len(calls[c].available) = FleetSize
                       /\ calls[c].elevatorId # calls[c].available[1].id

\* C10: assignElevator fails with 'No available elevators' whenever the list
\* of available units is empty, and hands out no unit id then: an invocation
\* that got any other answer from it had a non-empty list.
C10_NoAvailableUnit ==
    \A c \in CallIds :
        /\ Dispatched(c) => calls[c].available # <<>>
        /\ (calls[c].pc = "done" /\ calls[c].result = "No available elevators")
              => /\ calls[c].available = <<>>
                 /\ calls[c].elevatorId = Null
                 /\ floorRequests[calls[c].request].elevatorId = Null

C10_Witness ==
    \E c \in CallIds :
        /\ calls[c].pc = "done"
        /\ calls[c].result = "No available elevators"
        /\ \A u \in Elevators : ~isAvailable(dbElevators[u])

DispatchFailure == {"No available elevators", "No suitable elevator found"}

\* a callElevator invocation holds row r between its create and its assign
InFlight(r) ==
    \E c \in CallIds : /\ calls[c].request = r
                       /\ calls[c].pc \in {"create", "getAvailable", "loads"}

InQueue(r, queues) == \E u \in DOMAIN queues : r \in Range(queues[u])

\* a unit the coordinator holds as in service
InService(elevator) ==
    /\ elevator.isActive
    /\ elevator.state \notin {"MAINTENANCE", "OUT_OF_SERVICE"}

\* C3: every request that callElevator assigned to a unit is eventually
\* marked COMPLETED in the ledger, under fair ticks and timers and with no
\* emergencyStop or setMaintenance.
C3_EventuallyCompleted ==
    \A r \in 1..MaxRequests :
        (r \in RequestIds /\ floorRequests[r].status = "ASSIGNED")
            ~> (r \in RequestIds /\ floorRequests[r].status = "COMPLETED")

\* C5: when dispatch fails inside callElevator, the request just created is
\* PENDING with no elevator and in no unit's queue, and a request that no
\* invocation holds any more stays so.
C5_FailureLeavesPending ==
    [][/\ \A c \in CallIds :
             (/\ calls[c].pc # "done"
              /\ calls'[c].pc = "done"
              /\ calls'[c].result \in DispatchFailure)
             => /\ floorRequests'[calls'[c].request].status = "PENDING"
                /\ floorRequests'[calls'[c].request].elevatorId = Null
                /\ ~InQueue(calls'[c].request, Queues')
       /\ \A r \in RequestIds :
             (floorRequests[r].status = "PENDING" /\ ~InFlight(r))
             => /\ floorRequests'[r] = floorRequests[r]
                /\ floorRequests[r].elevatorId = Null
                /\ ~InQueue(r, Queues')]_vars

C5_Witness ==
    \E c \in CallIds :
        /\ calls[c].pc = "done"
        /\ calls[c].result \in DispatchFailure
        /\ floorRequests[calls[c].request].status = "PENDING"
        /\ \E u \in Elevators : activeElevators[u].queue # <<>>

\* C6: a request left PENDING by a dispatch failure can be retried: a later
\* callElevator for the same (floor, direction), issued when a unit is
\* available, is not rejected as a duplicate of that request.
C6_RetryAccepted ==
    \A c \in CallIds :
        (calls[c].pc = "done" /\ calls[c].result = DuplicateRequest)
        => ~ /\ Len(getAvailableElevators(dbElevators)) > 0
             /\ \E r \in ActiveRows(calls[c].fromFloor, calls[c].direction) :
                   /\ floorRequests[r].status = "PENDING"
                   /\ floorRequests[r].elevatorId = Null
                   /\ ~InFlight(r)

\* C7: after any sequence of calls, ticks and timer firings every unit's queue
\* is ordered by priority, highest first.
C7_QueueByPriority ==
    \A u \in Elevators :
        LET queue == activeElevators[u].queue
        IN  \A i, j \in DOMAIN queue :
                i < j => floorRequests[queue[i]].priority
                            >= floorRequests[queue[j]].priority

\* C9: once a unit is stopped or in maintenance, dispatch does not choose it:
\* a unit is never assigned a request while the coordinator holds it as out
\* of service and the fleet table still lists it as available.
C9_ChosenUnitInService ==
    [][\A c \in CallIds :
          (calls[c].pc # "assign" /\ calls'[c].pc = "assign")
          => LET u == calls'[c].elevatorId
             IN  ~ /\ ~InService(activeElevators[u])
                   /\ isAvailable(dbElevators[u])]_vars

\* what an invocation that has chosen a unit acted on: the floor of its
\* request, the units it was given and the one it chose
RequestFloor(c) == floorRequests[calls[c].request].floor

RequestDirection(c) == floorRequests[calls[c].request].direction

Chosen(c) ==
    CHOOSE e \in Range(calls[c].available) : e.id = calls[c].elevatorId

Distance(e, floor) == Abs(e.currentFloor - floor)

\* e is the unit of lowest ordinal number among the units of S at the least
\* distance from floor
ClosestOf(e, S, floor) ==
    /\ e \in S
    /\ \A o \in S :
          /\ Distance(e, floor) <= Distance(o, floor)
          /\ Distance(e, floor) = Distance(o, floor) => e.id <= o.id

\* C11: under NEAREST the unit chosen for a request is, among the available
\* units the dispatch was given, one at the least distance
\* |currentFloor - requestFloor|, and of the units at that distance the one
\* with the lowest ordinal number.
C11_NearestMinimisesDistance ==
    \A c \in CallIds :
        (calls[c].pc = "assign" /\ algorithm = "NEAREST")
            => ClosestOf(Chosen(c), Range(calls[c].available), RequestFloor(c))

\* NEAREST has chosen unit 1 of two units that are equally far, and not at,
\* the request floor
C11_Witness ==
    \E c \in CallIds :
        /\ calls[c].pc = "assign" /\ algorithm = "NEAREST"
        /\ Len(calls[c].available) = 2
        /\ calls[c].elevatorId = calls[c].available[1].id
        /\ Distance(calls[c].available[1], RequestFloor(c)) > 0
        /\ Distance(calls[c].available[1], RequestFloor(c))
               = Distance(calls[c].available[2], RequestFloor(c))

\* the available units of an invocation that move in its request's direction
\* with the request floor still ahead of them
MovingAhead(c) ==
    {e \in Range(calls[c].available) :
        \/ /\ e.direction = "UP" /\ RequestDirection(c) = "UP"
           /\ e.currentFloor <= RequestFloor(c)
        \/ /\ e.direction = "DOWN" /\ RequestDirection(c) = "DOWN"
           /\ e.currentFloor >= RequestFloor(c)}

\* those units and the idle ones
IdleOrMovingAhead(c) ==
    MovingAhead(c) \cup {e \in Range(calls[c].available) : e.direction = "NONE"}

\* SCAN has chosen a unit
ScanChose(c) == calls[c].pc = "assign" /\ algorithm = "SCAN"

\* C12 as stated: under SCAN, whenever an available unit moves in the request's
\* direction with the floor ahead, the chosen unit is one of those units and
\* none of them is nearer to the request floor.
C12_ScanPrefersMovingUnits ==
    \A c \in CallIds :
        (ScanChose(c) /\ MovingAhead(c) # {})
            => /\ Chosen(c) \in MovingAhead(c)
               /\ \A o \in MovingAhead(c) :
                     Distance(Chosen(c), RequestFloor(c))
                         <= Distance(o, RequestFloor(c))

\* C12 as amended: under SCAN, whenever an available unit is idle or moves in
\* the request's direction with the floor ahead, the chosen unit is one of
\* those units (the idle ones included), none of them is nearer to the request
\* floor, and of the nearest it has the lowest ordinal number.
C12_ScanPrefersIdleOrMovingUnits ==
    \A c \in CallIds :
        (ScanChose(c) /\ IdleOrMovingAhead(c) # {})
            => ClosestOf(Chosen(c), IdleOrMovingAhead(c), RequestFloor(c))

\* SCAN has chosen an idle unit although a unit moving the request's way, with
\* the floor ahead, was available
C12_Witness ==
    \E c \in CallIds :
        /\ ScanChose(c)
        /\ MovingAhead(c) # {}
        /\ Chosen(c).direction = "NONE"

\* the floors of the simulated sweep of a unit to a request floor: to the top
\* and back for a unit moving up, to the bottom and back for one moving down,
\* the distance for an idle one
SweepFloors(e, floor) ==
    IF e.direction = "UP"
    THEN (totalFloors - e.currentFloor) + (totalFloors - floor)
    ELSE IF e.direction = "DOWN"
    THEN (e.currentFloor - 1) + (floor - 1)
    ELSE Abs(floor - e.currentFloor)

\* e has the least sweep among the units of S, and the lowest ordinal number
\* of those that have it
LeastSweepOf(e, S, floor) ==
    /\ e \in S
    /\ \A o \in S :
          /\ SweepFloors(e, floor) <= SweepFloors(o, floor)
          /\ SweepFloors(e, floor) = SweepFloors(o, floor) => e.id <= o.id

\* C13 as stated: under SCAN, when no available unit moves in the request's
\* direction with the floor ahead, the chosen unit has the least simulated
\* sweep of all available units, the lowest ordinal number deciding ties.
C13_ScanLeastSweep ==
    \A c \in CallIds :
        (ScanChose(c) /\ MovingAhead(c) = {})
            => LeastSweepOf(Chosen(c), Range(calls[c].available), RequestFloor(c))

\* C13 as amended: under SCAN, when no available unit is idle and none moves
\* in the request's direction with the floor ahead, the chosen unit has the
\* least simulated sweep of all available units, the lowest ordinal number
\* deciding ties.
C13_ScanLeastSweepOfMoving ==
    \A c \in CallIds :
        (ScanChose(c) /\ IdleOrMovingAhead(c) = {})
            => LeastSweepOf(Chosen(c), Range(calls[c].available), RequestFloor(c))

\* SCAN has chosen unit 2 of two moving units, neither of them with the floor
\* ahead in the request's direction, for its shorter sweep
C13_Witness ==
    \E c \in CallIds :
        /\ ScanChose(c)
        /\ IdleOrMovingAhead(c) = {}
        /\ Len(calls[c].available) = 2
        /\ calls[c].elevatorId = calls[c].available[2].id
        /\ SweepFloors(calls[c].available[2], RequestFloor(c))
               < SweepFloors(calls[c].available[1], RequestFloor(c))

\* LOOK has chosen a unit
LookChose(c) == calls[c].pc = "assign" /\ algorithm = "LOOK"

\* the positions of the units an invocation was given
Given(c) == 1..Len(calls[c].available)

\* the position of the chosen unit among them
ChosenAt(c) == CHOOSE i \in Given(c) : calls[c].available[i].id = calls[c].elevatorId

\* the request is strictly en route of a unit
EnRoute(e, floor, direction) ==
    \/ e.direction = "UP" /\ direction = "UP" /\ floor > e.currentFloor
    \/ e.direction = "DOWN" /\ direction = "DOWN" /\ floor < e.currentFloor

\* the efficiency score in thousandths: distance x (1 + 0.1 x queue length),
\* less 20% for a unit that is idle or heads the request's way and a further
\* 30% when the request is strictly en route
Score(e, floor, direction, load) ==
    Distance(e, floor) * (10 + Len(load.upRequests) + Len(load.downRequests))
        * (IF e.direction \in {direction, "NONE"} THEN 8 ELSE 10)
        * (IF EnRoute(e, floor, direction) THEN 7 ELSE 10)

\* score and estimated time of the unit at position i, on the loads read
ScoreAt(c, i) ==
    Score(calls[c].available[i], RequestFloor(c), RequestDirection(c),
          calls[c].loads[i])

TimeAt(c, i) ==
    calculateLookTime(calls[c].available[i], RequestFloor(c),
                      RequestDirection(c), calls[c].loads[i])

Opposite(direction) == IF direction = "UP" THEN "DOWN" ELSE "UP"

\* a unit heading the request's way scores strictly lower than the same unit
\* heading the other way, unless it is at the request floor
AlignedScoresLower(c) ==
    \A i \in Given(c) :
        LET e == calls[c].available[i]
        IN  Distance(e, RequestFloor(c)) > 0
                => calculateLookEfficiency(
                       [e EXCEPT !.direction = RequestDirection(c)],
                       RequestFloor(c), RequestDirection(c), calls[c].loads[i])
                   < calculateLookEfficiency(
                       [e EXCEPT !.direction = Opposite(RequestDirection(c))],
                       RequestFloor(c), RequestDirection(c), calls[c].loads[i])

RanksBefore(c, i, j) ==
    IF Abs(ScoreAt(c, i) - ScoreAt(c, j)) >= 100
    THEN ScoreAt(c, i) < ScoreAt(c, j)
    ELSE \/ TimeAt(c, i) < TimeAt(c, j)
         \/ TimeAt(c, i) = TimeAt(c, j) /\ i < j

\* no two scores are less than 0.1 apart without being equal
NoNearScores(c) ==
    \A i, j \in Given(c) :
        ScoreAt(c, i) = ScoreAt(c, j) \/ Abs(ScoreAt(c, i) - ScoreAt(c, j)) >= 100

InvalidAlgorithm == "Invalid scheduling algorithm"

\* C15: switchAlgorithm with a name that is not a recognised algorithm fails
\* with InvalidAlgorithm and leaves the configured algorithm as it is; with a
\* recognised name it sets the configured algorithm to that name and reports
\* the previous one as oldAlgorithm.
C15_SwitchAlgorithm ==
    [][\A x \in AlgorithmNames :
          switchAlgorithm(x)
              => IF x \in SCHEDULING_ALGORITHMS
                 THEN /\ algorithm' = x
                      /\ operatorCall'.result = "ok"
                      /\ operatorCall'.oldAlgorithm = algorithm
                 ELSE /\ algorithm' = algorithm
                      /\ operatorCall'.result = InvalidAlgorithm]_vars

\* a switchAlgorithm with an unrecognised name has failed while LOOK was, and
\* is, configured and an invocation is about to dispatch
C15_Witness ==
    /\ operatorCall.op = "switchAlgorithm"
    /\ operatorCall.result = InvalidAlgorithm
    /\ algorithm = "LOOK"
    /\ \E c \in CallIds : calls[c].pc = "getAvailable"

\* an invocation dispatches, with units to choose from, by the strategy that
\* is configured at that step
RunsConfigured(c) ==
    (/\ calls[c].pc = "getAvailable"
     /\ calls'[c].pc # "getAvailable"
     /\ Len(calls[c].available) > 0)
        => LET request == floorRequests[calls[c].request]
           IN  CASE algorithm = "LOOK" -> calls'[c].pc = "loads"
                 [] algorithm = "SCAN" ->
                        calls'[c].elevatorId
                            = scanAlgorithm(request, calls[c].available).id
                 [] OTHER ->
                        calls'[c].elevatorId
                            = nearestElevatorAlgorithm(request,
                                                       calls[c].available).id

OperatorStep(op, u) ==
    /\ operatorCall.op = "none"
    /\ operatorCall'.op = op
    /\ operatorCall'.elevatorId = u

\* C17: emergencyStop on an existing unit, whatever its state, leaves the unit
\* OUT_OF_SERVICE with direction NONE and isActive false and with the queue it
\* had before the call; no other unit, and no other unit's row, is changed.
C17_EmergencyStop ==
    [][\A u \in Elevators :
          OperatorStep("emergencyStop", u)
              => /\ operatorCall'.result = "ok"
                 /\ activeElevators'[u].state = "OUT_OF_SERVICE"
                 /\ activeElevators'[u].direction = "NONE"
                 /\ activeElevators'[u].isActive = FALSE
                 /\ activeElevators'[u].queue = activeElevators[u].queue
                 /\ \A v \in Elevators \ {u} :
                       /\ activeElevators'[v] = activeElevators[v]
                       /\ dbElevators'[v] = dbElevators[v]]_vars

\* a unit with a request in its queue has been stopped while another unit is
\* travelling
C17_Witness ==
    \E u, v \in Elevators :
        /\ operatorCall.op = "emergencyStop"
        /\ operatorCall.elevatorId = u
        /\ activeElevators[u].state = "OUT_OF_SERVICE"
        /\ Len(activeElevators[u].queue) > 0
        /\ v # u
        /\ activeElevators[v].state \in {"MOVING_UP", "MOVING_DOWN"}
        /\ activeElevators[v].isMoving

\* C18: emergencyStop cancels every pending movement timer of the unit: no
\* arrival scheduled before the stop fires after it, so a stopped unit keeps
\* its currentFloor and does not enter DOOR_OPENING.
C18_NoArrivalAfterStop ==
    [][\A u \in Elevators :
          activeElevators[u].state = "OUT_OF_SERVICE"
              => /\ activeElevators'[u].currentFloor
                        = activeElevators[u].currentFloor
                 /\ activeElevators'[u].state # "DOOR_OPENING"]_vars

\* this step is the operator's stop or maintenance call on unit u
OperatorActs(u) ==
    \/ OperatorStep("emergencyStop", u)
    \/ OperatorStep("setMaintenance", u)

\* C19: MAINTENANCE and OUT_OF_SERVICE are not left by themselves: a unit in
\* one of them keeps its state through every tick and every timer scheduled
\* earlier (movement, door opening, auto-close, door closing), until the
\* operator acts on it again.
C19_NotAutoExited ==
    [][\A u \in Elevators :
          (/\ activeElevators[u].state \in {"MAINTENANCE", "OUT_OF_SERVICE"}
           /\ ~OperatorActs(u))
              => activeElevators'[u].state = activeElevators[u].state]_vars

\* C20: setMaintenance on an existing unit, whatever its state, completes
\* without error and leaves the unit in MAINTENANCE with isActive false and
\* an empty queue.
C20_SetMaintenance ==
    [][\A u \in Elevators :
          OperatorStep("setMaintenance", u)
              => /\ operatorCall'.result = "ok"
                 /\ activeElevators'[u].state = "MAINTENANCE"
                 /\ activeElevators'[u].isActive = FALSE
                 /\ Len(activeElevators'[u].queue) = 0]_vars

\* C21: when setMaintenance empties the queue of a unit, every request that
\* was in that queue is CANCELLED in the ledger afterwards, so none of them
\* remains active.
C21_QueueCancelled ==
    [][\A u \in Elevators :
          OperatorStep("setMaintenance", u)
              => \A r \in Range(activeElevators[u].queue) :
                    floorRequests'[r].status = "CANCELLED"]_vars

UnitNotFound == "Elevator not found"

\* this step is the entry of a getElevatorStatus(u) in slot q
StatusStep(q, u) ==
    /\ statusCalls[q].pc = "idle"
    /\ statusCalls'[q].op = "getElevatorStatus"
    /\ statusCalls'[q].elevatorId = u

\* C22: emergencyStop, setMaintenance and getElevatorStatus called with an id
\* that is no unit of the fleet fail with 'Elevator not found' and change no
\* unit, no queue, no timer, no row of the fleet and no request.
C22_UnknownUnit ==
    [][\A u \in InputElevators \ Elevators :
          /\ OperatorActs(u)
                => /\ operatorCall'.result = UnitNotFound
                   /\ UNCHANGED <<unitVars, floorRequests>>
          /\ \A q \in StatusIds :
                StatusStep(q, u)
                    => /\ statusCalls'[q].pc = "done"
                       /\ statusCalls'[q].result = UnitNotFound
                       /\ UNCHANGED <<unitVars, floorRequests>>]_vars

\* a status query and a maintenance call have both been refused for an id
\* that is no unit, while a unit with a request in its queue is travelling
\* on a pending timer
C22_Witness ==
    /\ operatorCall.op = "setMaintenance"
    /\ operatorCall.elevatorId \notin Elevators
    /\ operatorCall.result = UnitNotFound
    /\ \E q \in StatusIds :
          /\ statusCalls[q].op = "getElevatorStatus"
          /\ statusCalls[q].elevatorId \notin Elevators
          /\ statusCalls[q].result = UnitNotFound
    /\ \E v \in Elevators :
          /\ activeElevators[v].state \in {"MOVING_UP", "MOVING_DOWN"}
          /\ Len(activeElevators[v].queue) > 0
          /\ movementTimers[v]

\* C23: the round trip IDLE -> MOVING -> DOOR_OPENING -> DOOR_OPEN ->
\* DOOR_CLOSING -> IDLE ends with direction NONE and the doors CLOSED, and the
\* step back to IDLE takes the head off the queue and marks that request
\* COMPLETED in the ledger.
C23_RoundTrip ==
    [][\A u \in Elevators :
          (/\ activeElevators[u].state = "DOOR_CLOSING"
           /\ activeElevators'[u].state = "IDLE"
           /\ Len(activeElevators[u].queue) > 0)
              => /\ activeElevators'[u].direction = "NONE"
                 /\ activeElevators'[u].doorState = "CLOSED"
                 /\ activeElevators'[u].queue = Tail(activeElevators[u].queue)
                 /\ floorRequests'[Head(activeElevators[u].queue)].status
                        = "COMPLETED"]_vars

\* the states in which a unit is at rest
RestStates == {"IDLE", "MAINTENANCE", "OUT_OF_SERVICE"}

\* C24: in every reachable state of every unit, direction is NONE exactly when
\* the state is IDLE, MAINTENANCE or OUT_OF_SERVICE, whatever the unit was
\* doing when setMaintenance or emergencyStop was called.
C24_DirectionNoneIffAtRest ==
    \A u \in Elevators :
        activeElevators[u].direction = "NONE"
            <=> activeElevators[u].state \in RestStates

\* C25: in every reachable state of every unit, targetFloor is set exactly
\* when the state is MOVING_UP or MOVING_DOWN, whatever the unit was doing
\* when emergencyStop or setMaintenance was called.
C25_TargetIffMoving ==
    \A u \in Elevators :
        activeElevators[u].targetFloor # Null
            <=> activeElevators[u].state \in {"MOVING_UP", "MOVING_DOWN"}

\* the answers of getAllElevatorStatuses the callers hold
AllStatusAnswers ==
    {q \in StatusIds : /\ statusCalls[q].op = "getAllElevatorStatuses"
                       /\ statusCalls[q].pc = "done"}

Enqueues(c, u) ==
    /\ calls[c].pc = "assign"
    /\ calls[c].elevatorId = u
    /\ calls'[c].pc = "done"

\* this step starts a movement of unit u
StartsMoving(u) ==
    /\ activeElevators[u].state \notin {"MOVING_UP", "MOVING_DOWN"}
    /\ activeElevators'[u].state \in {"MOVING_UP", "MOVING_DOWN"}

\* C27: no request is put on the queue of a unit that stands at the floor of
\* the request, and no unit starts a movement to the floor it is at.
C27_NoSameFloor ==
    [][\A u \in Elevators :
          /\ \A c \in CallIds :
                Enqueues(c, u)
                    => floorRequests[calls[c].request].floor
                           # activeElevators[u].currentFloor
          /\ StartsMoving(u)
                => activeElevators'[u].targetFloor
                       # activeElevators'[u].currentFloor]_vars

\* the edges of the lifecycle of a unit
LifecycleEdges ==
    {<<"IDLE", "MOVING_UP">>, <<"IDLE", "MOVING_DOWN">>,
     <<"MOVING_UP", "DOOR_OPENING">>, <<"MOVING_DOWN", "DOOR_OPENING">>,
     <<"DOOR_OPENING", "DOOR_OPEN">>, <<"DOOR_OPEN", "DOOR_CLOSING">>,
     <<"DOOR_CLOSING", "IDLE">>}

\* C28: every change of a unit's state follows an edge of the lifecycle IDLE
\* -> MOVING_UP/MOVING_DOWN -> DOOR_OPENING -> DOOR_OPEN -> DOOR_CLOSING ->
\* IDLE, or is the operator's step into OUT_OF_SERVICE or MAINTENANCE; in
\* particular no timer takes a unit into DOOR_OPEN, DOOR_CLOSING or IDLE from
\* any state but the one before it.
C28_LifecycleEdges ==
    [][\A u \in Elevators :
          activeElevators'[u].state # activeElevators[u].state
              => \/ <<activeElevators[u].state, activeElevators'[u].state>>
                        \in LifecycleEdges
                 \/ /\ OperatorStep("emergencyStop", u)
                    /\ activeElevators'[u].state = "OUT_OF_SERVICE"
                 \/ /\ OperatorStep("setMaintenance", u)
                    /\ activeElevators'[u].state = "MAINTENANCE"]_vars

\* this step is the continuation of a tick task of unit u that was suspended
\* at getNextRequests
TickTaskResumes(u) == Len(idleTasks'[u]) < Len(idleTasks[u])

\* C29: an operator call and the tick task of the same unit exclude each
\* other: when a tick task resumes on a unit that the operator has stopped or
\* put in maintenance since the task was suspended (tick tasks start on active
\* units only, and only those calls deactivate a unit), it leaves the state,
\* direction, targetFloor and queue the call set.
C29_TickTaskKeepsOperatorState ==
    [][\A u \in Elevators :
          (TickTaskResumes(u) /\ ~activeElevators[u].isActive)
              => /\ activeElevators'[u].state = activeElevators[u].state
                 /\ activeElevators'[u].direction = activeElevators[u].direction
                 /\ activeElevators'[u].targetFloor
                        = activeElevators[u].targetFloor
                 /\ activeElevators'[u].queue = activeElevators[u].queue]_vars

\* C30: ticks do not overlap: when the interval timer fires and
\* processAllElevators starts the unit tasks of a tick, no unit task of an
\* earlier tick is still suspended.
C30_TicksDoNotOverlap ==
    [][processAllElevators
          => \A u \in Elevators : Len(idleTasks[u]) = 0]_vars

\* a task or a timer is pending on the instances of the map
PendingWork ==
    \E u \in DOMAIN movementTimers :
        \/ movementTimers[u]
        \/ orphanTimers[u] > 0
        \/ doorOpeningTimers[u] > 0
        \/ autoCloseTimers[u] > 0
        \/ doorClosingTimers[u] > 0
        \/ Len(idleTasks[u]) > 0

\* C31: at most one interval runs processAllElevators, whatever sequence of
\* initialize and shutdown calls was made; a shutdown stops it and cancels
\* every pending timer, so that after a shutdown no interval runs and no
\* timer or task scheduled before it is pending, on the map or on an instance
\* cleared from it.
C31_OneTickLoop ==
    /\ service.loops <= 1
    /\ ~service.isInitialized
          => /\ service.loops = 0
             /\ ~PendingWork
             /\ Stale = {}

(* ------------------------ failure of a tick task ----------------------- *)

\* a rejection that escapes the task instead of being caught: the batch is
\* abandoned and the interval callback dies with it
catchMovementError_Rethrow(u) == errors' = [errors EXCEPT ![u] = @ + 1] /\ idleTasks' = [v \in DOMAIN idleTasks |-> <<>>] /\ service' = [service EXCEPT !.loops = 0] /\ UNCHANGED detached

\* the catch block of processElevatorMovement: the error is logged and the
\* task of this unit ends; nothing is rethrown
catchMovementError(u) == errors' = [errors EXCEPT ![u] = @ + 1] /\ idleTasks' = [idleTasks EXCEPT ![u] = Tail(@)] /\ UNCHANGED lifecycleVars

\* the scheduling query awaited by processIdleState rejects (getNextRequests
\* has no handler of its own); the rejection reaches the catch block of
\* processElevatorMovement
getNextRequestsFails(u) ==
    /\ Ready
    /\ Len(idleTasks[u]) > 0
    /\ errors[u] < MaxErrors
    /\ catchMovementError(u)
    /\ UNCHANGED <<activeElevators, timerVars, dbElevators, floorRequests,
                   configVars, algorithm, calls, operatorCall, statusCalls,
                   estimate>>

\* a fleet after startup with one assigned request per unit in the ledger and
\* no caller
FailureInit ==
    /\ initialize([u \in 1..FleetSize |-> SeedRow])
    /\ totalFloors = NumFloors
    /\ floorRequests \in {ledger \in [1..FleetSize -> UNION {TripRows(u) :
                                                   u \in 1..FleetSize}] :
                              \A u \in 1..FleetSize : ledger[u].elevatorId = u}
    /\ uniqueIndex = FALSE
    /\ algorithm \in SCHEDULING_ALGORITHMS
    /\ calls = [c \in {1} |-> IdleCall]
    /\ operatorCall = IdleOperator
    /\ statusCalls = [q \in {1} |-> IdleStatus]
    /\ service = Running
    /\ detached = NoDetached
    /\ estimate = NoEstimate

FailureNext ==
    \/ processAllElevators
    \/ \E u \in Elevators : processIdleState(u)
    \/ \E u \in Elevators : getNextRequestsFails(u)
    \/ \E u \in Elevators : MovementTimer(u)
    \/ \E u \in Elevators : DoorOpeningTimer(u)
    \/ \E u \in Elevators : AutoCloseTimer(u)
    \/ \E u \in Elevators : DoorClosingTimer(u)

FailureSpec == FailureInit /\ [][FailureNext]_vars

\* the step in which the task of unit u fails
TaskFails(u) == errors'[u] > errors[u]

\* C32: when the per-tick task of one unit fails, the failure is logged and
\* goes no further: no other unit's instance, row, timers or pending task
\* changes, the interval keeps running, and every tick, before and after a
\* failure, still starts the work of every active unit
C32_FailureIsolated ==
    /\ [][\A u \in Elevators :
             TaskFails(u) =>
                /\ service' = service
                /\ \A v \in Elevators \ {u} :
                      /\ activeElevators'[v] = activeElevators[v]
                      /\ dbElevators'[v] = dbElevators[v]
                      /\ idleTasks'[v] = idleTasks[v]
                      /\ movementTimers'[v] = movementTimers[v]
                      /\ doorOpeningTimers'[v] = doorOpeningTimers[v]
                      /\ autoCloseTimers'[v] = autoCloseTimers[v]
                      /\ doorClosingTimers'[v] = doorClosingTimers[v]]_vars
    /\ [][processAllElevators =>
             \A v \in Elevators :
                /\ TickCase(v) = "fetch"
                      => Len(idleTasks'[v]) = Len(idleTasks[v]) + 1
                /\ TickCase(v) = "start"
                      => activeElevators'[v].state # "IDLE"]_vars
    /\ [](service.loops > 0)

\* the task of one unit has failed and left it idle, while another unit of
\* the same fleet has been started towards its request
C32_Witness ==
    \E u, v \in Elevators :
        /\ u # v
        /\ errors[u] > 0
        /\ activeElevators[u].state = "IDLE"
        /\ activeElevators[u].queue = <<>>
        /\ activeElevators[v].isMoving

(* --------------------------- request progress -------------------------- *)

\* C33: a request is IN_PROGRESS from the step in which its unit leaves IDLE
\* for MOVING_UP or MOVING_DOWN towards it, as the head of the queue, until it
\* is COMPLETED or CANCELLED
C33_InProgressWhileServed ==
    /\ [][\A u \in Elevators :
             StartsMoving(u) /\ activeElevators'[u].queue # <<>>
                => floorRequests'[activeElevators'[u].queue[1]].status
                      = "IN_PROGRESS"]_vars
    /\ [][\A r \in RequestIds :
             floorRequests[r].status = "IN_PROGRESS"
                => floorRequests'[r].status
                      \in {"IN_PROGRESS", "COMPLETED", "CANCELLED"}]_vars

(* ------------------------------- arrival ------------------------------- *)

\* the step in which unit u arrives: its movement timer has fired
Arrives(u) ==
    /\ activeElevators[u].state \in {"MOVING_UP", "MOVING_DOWN"}
    /\ activeElevators'[u].state = "DOOR_OPENING"

\* C34: on every arrival currentFloor becomes the previous targetFloor,
\* targetFloor is cleared, the unit's trip counter grows by one and its
\* floors-travelled counter by |previous targetFloor - previous currentFloor|
C34_ArrivalCounts ==
    [][\A u \in Elevators :
          Arrives(u) =>
             LET e == activeElevators[u]
                 dist == IF e.targetFloor > e.currentFloor
                         THEN e.targetFloor - e.currentFloor
                         ELSE e.currentFloor - e.targetFloor
             IN  /\ activeElevators'[u].currentFloor = e.targetFloor
                 /\ activeElevators'[u].targetFloor = Null
                 /\ dbElevators'[u].currentFloor = e.targetFloor
                 /\ dbElevators'[u].targetFloor = Null
                 /\ dbElevators'[u].totalTrips = dbElevators[u].totalTrips + 1
                 /\ dbElevators'[u].totalFloorsTraveled =
                       dbElevators[u].totalFloorsTraveled + dist]_vars

(* ------------------ route optimisation and statistics ------------------ *)

\* calculateRouteTime: travel to every stop in order, plus a door cycle each
calculateRouteTime(startFloor, floors) ==
    LET at(k) == IF k = 0 THEN startFloor ELSE floors[k]
        leg[k \in 0..Len(floors)] ==
            IF k = 0 THEN 0
            ELSE leg[k - 1] + Abs(floors[k] - at(k - 1)) * FloorTravelTime
                            + DoorOperationTime * 2
    IN  leg[Len(floors)]

\* optimizeElevatorRoute: up requests by rising floor and down requests by
\* falling floor, the up ones first unless the unit is heading down. What it
\* returns is the object { ...optimizedRoute, timeSaved }: the stops under
\* their indices, and not an array
optimizeElevatorRoute(elevator, requests) ==
    LET floorOf(r) == floorRequests[r].floor
        ups == SelectSeq(requests, LAMBDA r : floorRequests[r].direction = "UP")
        downs == SelectSeq(requests,
                           LAMBDA r : floorRequests[r].direction = "DOWN")
        upRequests == SortBy(ups, [a, b \in Range(ups) |->
                                       floorOf(a) - floorOf(b)])
        downRequests == SortBy(downs, [a, b \in Range(downs) |->
                                           floorOf(b) - floorOf(a)])
        optimizedRoute == IF elevator.direction \in {"UP", "NONE"}
                          THEN upRequests \o downRequests
                          ELSE downRequests \o upRequests
        floors(route) == [i \in 1..Len(route) |-> floorOf(route[i])]
        originalTime == calculateRouteTime(elevator.currentFloor,
                                           floors(requests))
        optimizedTime == calculateRouteTime(elevator.currentFloor,
                                            floors(optimizedRoute))
    IN  [isArray |-> FALSE, stops |-> floors(optimizedRoute),
         timeSaved |-> IF originalTime > optimizedTime
                       THEN originalTime - optimizedTime ELSE 0]

\* the body of the loop of optimizeRoutes for one unit: nothing for a unit
\* with at most one request, else one entry; optimizedRoute.map is applied
\* to what optimizeElevatorRoute returned and throws when that is no array
optimizeUnit(elevator) ==
    LET requests == getNextRequests(floorRequests, elevator.id)
        optimizedRoute == optimizeElevatorRoute(elevator, requests)
    IN  IF Len(requests) <= 1 THEN [threw |-> FALSE, entries |-> <<>>]
        ELSE IF ~optimizedRoute.isArray THEN [threw |-> TRUE, entries |-> <<>>]
        ELSE [threw |-> FALSE,
              entries |-> <<[elevatorId |-> elevator.id,
                             originalRoute |->
                                [i \in 1..Len(requests) |->
                                    floorRequests[requests[i]].floor],
                             optimizedRoute |-> optimizedRoute.stops,
                             timeSaved |-> optimizedRoute.timeSaved]>>]

\* optimizeRoutes is invoked and awaits getAvailableElevators
optimizeRoutes(q) ==
    /\ Ready
    /\ statusCalls[q].pc = "idle"
    /\ statusCalls' = [statusCalls EXCEPT ![q] =
          [IdleStatus EXCEPT !.op = "optimizeRoutes", !.pc = "getAvailable"]]
    /\ UNCHANGED <<unitVars, floorRequests, configVars, algorithm, calls,
                   operatorCall, lifecycleVars, errors, estimate>>

\* the continuation of getAvailableElevators: the loop starts, or there is
\* no unit to look at
optimizeRoutesAvailable(q) ==
    LET elevators == getAvailableElevators(dbElevators)
    IN  /\ Ready
        /\ statusCalls[q].op = "optimizeRoutes"
        /\ statusCalls[q].pc = "getAvailable"
        /\ statusCalls' = [statusCalls EXCEPT ![q] =
              IF Len(elevators) = 0
              THEN [statusCalls[q] EXCEPT !.pc = "done", !.result = <<>>]
              ELSE [statusCalls[q] EXCEPT !.pc = "getNextRequests",
                                         !.pending = elevators]]
        /\ UNCHANGED <<unitVars, floorRequests, configVars, algorithm, calls,
                       operatorCall, lifecycleVars, errors, estimate>>

\* getNextRequests of the next unit and the rest of the loop body; a throw
\* ends the call in the catch block, which returns the empty list
optimizeRoutesNext(q) ==
    LET call == statusCalls[q]
        unit == optimizeUnit(Head(call.pending))
        optimizations == call.statuses \o unit.entries
    IN  /\ Ready
        /\ call.op = "optimizeRoutes"
        /\ call.pc = "getNextRequests"
        /\ statusCalls' = [statusCalls EXCEPT ![q] =
              IF unit.threw
              THEN [call EXCEPT !.pc = "done", !.pending = <<>>,
                                !.statuses = <<>>, !.result = <<>>]
              ELSE IF Len(call.pending) = 1
              THEN [call EXCEPT !.pc = "done", !.pending = <<>>,
                                !.statuses = optimizations,
                                !.result = optimizations]
              ELSE [call EXCEPT !.pending = Tail(call.pending),
                                !.statuses = optimizations]]
        /\ UNCHANGED <<unitVars, floorRequests, configVars, algorithm, calls,
                       operatorCall, lifecycleVars, errors, estimate>>

\* the trailing window of getAlgorithmStats and the clock, in hours
StatsWindow == 24
Now == 48
\* milliseconds in a minute, the divisor of the efficiency score
MinuteMs == 60000

\* the values a JavaScript number can take in the statistics
Num(n) == [kind |-> "number", value |-> n]
NaN == [kind |-> "NaN", value |-> 0]
Infinity == [kind |-> "Infinity", value |-> 0]
NegInfinity == [kind |-> "-Infinity", value |-> 0]

\* Math.round(sum / totalRequests): 0 / 0 is NaN and stays NaN
avgWaitTime(sum, totalRequests) == IF totalRequests = 0 THEN NaN ELSE Num((2 * sum + totalRequests) \div (2 * totalRequests))

\* the object getAlgorithmStats builds from the rows COMPLETED inside the
\* window; the efficiency, 100 - avgWaitTime / 60000 floored at 0, is kept
\* as the exact fraction num / den
algorithmStats(requests) ==
    LET rows == SelectSeq(requests,
                    LAMBDA r : /\ r.status = "COMPLETED"
                               /\ r.completedAt >= Now - StatsWindow)
        totalRequests == Len(rows)
        waits == [i \in 1..totalRequests |->
                     IF rows[i].waitTime = Null THEN 0 ELSE rows[i].waitTime]
        total[k \in 0..totalRequests] ==
            IF k = 0 THEN 0 ELSE total[k - 1] + waits[k]
        sum == total[totalRequests]
        den == MinuteMs * totalRequests
    IN  [algorithm |-> algorithm, period |-> "24h",
         totalRequests |-> totalRequests,
         avgWaitTime |-> avgWaitTime(sum, totalRequests),
         maxWaitTime |-> IF totalRequests = 0 THEN NegInfinity
                         ELSE Num(MaxOf(Range(waits))),
         minWaitTime |-> IF totalRequests = 0 THEN Infinity
                         ELSE Num(MinOf(Range(waits))),
         efficiency |-> IF totalRequests > 0
                        THEN [num |-> IF 100 * den - sum > 0
                                      THEN 100 * den - sum ELSE 0,
                              den |-> den]
                        ELSE [num |-> 0, den |-> 1]]

\* getAlgorithmStats is invoked and awaits FloorRequest.findAll
getAlgorithmStats(q) ==
    /\ Ready
    /\ statusCalls[q].pc = "idle"
    /\ statusCalls' = [statusCalls EXCEPT ![q] =
          [IdleStatus EXCEPT !.op = "getAlgorithmStats", !.pc = "findAll"]]
    /\ UNCHANGED <<unitVars, floorRequests, configVars, algorithm, calls,
                   operatorCall, lifecycleVars, errors, estimate>>

\* the continuation of findAll: the statistics of the rows it returned
getAlgorithmStatsReturn(q) ==
    /\ Ready
    /\ statusCalls[q].op = "getAlgorithmStats"
    /\ statusCalls[q].pc = "findAll"
    /\ statusCalls' = [statusCalls EXCEPT ![q] =
          [statusCalls[q] EXCEPT !.pc = "done",
                                !.result = algorithmStats(floorRequests)]]
    /\ UNCHANGED <<unitVars, floorRequests, configVars, algorithm, calls,
                   operatorCall, lifecycleVars, errors, estimate>>

\* fleets the dispatch engine is asked about: every unit parked, or
\* travelling either way, on any floor, with at most one request assigned
AdvisoryRows ==
    {[SeedRow EXCEPT !.currentFloor = f, !.state = sd[1], !.direction = sd[2]] :
        f \in 1..NumFloors,
        sd \in {<<"IDLE", "NONE">>, <<"MOVING_UP", "UP">>,
                <<"MOVING_DOWN", "DOWN">>}}

AdvisoryInit ==
    /\ \E db \in [1..FleetSize -> AdvisoryRows] : initialize(db)
    /\ floorRequests \in {<<>>} \cup
          {<<[floor |-> f, direction |-> d, priority |-> 0,
              status |-> "ASSIGNED", elevatorId |-> u]>> :
              f \in 1..NumFloors, d \in {"UP", "DOWN"}, u \in 1..FleetSize}
    /\ totalFloors = NumFloors
    /\ uniqueIndex = FALSE
    /\ algorithm \in Algorithms
    /\ calls = [c \in {1} |-> IdleCall]
    /\ operatorCall = IdleOperator
    /\ statusCalls = [q \in {1} |-> IdleStatus]
    /\ service = Running
    /\ detached = NoDetached
    /\ estimate = NoEstimate

\* callElevator with the dispatch inside it, and the two advisory queries
AdvisoryNext ==
    \/ \E c \in CallIds, fromFloor, toFloor \in InputFloors,
          priority \in Priorities : CallStart(c, fromFloor, toFloor, priority)
    \/ \E c \in CallIds : CallCreate(c)
    \/ \E c \in CallIds : CallGetAvailable(c)
    \/ \E c \in CallIds : CallDispatch(c)
    \/ \E c \in CallIds : CallLoad(c)
    \/ \E c \in CallIds : CallEnqueue(c)
    \/ \E c \in CallIds : CallReturn(c)
    \/ \E q \in StatusIds : optimizeRoutes(q)
    \/ \E q \in StatusIds : optimizeRoutesAvailable(q)
    \/ \E q \in StatusIds : optimizeRoutesNext(q)
    \/ \E q \in StatusIds : getAlgorithmStats(q)
    \/ \E q \in StatusIds : getAlgorithmStatsReturn(q)
    \/ \E q \in StatusIds : StatusReturn(q)

AdvisorySpec == AdvisoryInit /\ [][AdvisoryNext]_vars

\* a step of assignElevator inside an invocation of callElevator
AssignStep ==
    \E c \in CallIds :
        /\ calls[c].pc \in {"create", "getAvailable", "loads"}
        /\ calls'[c] # calls[c]

\* a step of optimizeRoutes or of getAlgorithmStats
AdvisoryStep ==
    \E q \in StatusIds :
        /\ statusCalls'[q] # statusCalls[q]
        /\ \/ statusCalls[q].op \in {"optimizeRoutes", "getAlgorithmStats"}
           \/ statusCalls'[q].op \in {"optimizeRoutes", "getAlgorithmStats"}

\* no step of the dispatch engine changes a unit: instance, queue, row, timers
DispatchReadsOnly ==
    [][AssignStep \/ AdvisoryStep => UNCHANGED unitVars]_vars

\* optimizeRoutes has gone through unit u, which has more than one request
OptimizesUnit(q, u) ==
    /\ statusCalls[q].op = "optimizeRoutes"
    /\ statusCalls[q].pc = "getNextRequests"
    /\ statusCalls'[q] # statusCalls[q]
    /\ Head(statusCalls[q].pending).id = u
    /\ Len(getNextRequests(floorRequests, u)) > 1

\* C35: assignElevator, optimizeRoutes and getAlgorithmStats leave every
\* unit's state, position, direction and in-memory queue as they were, and
\* optimizeRoutes reports, without applying it, a reordering for every unit
\* with more than one queued stop
C35_DispatchReadsAndReports ==
    /\ DispatchReadsOnly
    /\ [][\A q \in StatusIds, u \in Elevators :
             OptimizesUnit(q, u) =>
                \E i \in DOMAIN statusCalls'[q].statuses :
                   statusCalls'[q].statuses[i].elevatorId = u]_vars

(* -------------------------- estimated arrival -------------------------- *)

\* an estimate that looks at the distance only and not at the queue
calculateEstimatedArrival_Direct(elevator, targetFloor) == Abs(targetFloor - elevator.currentFloor) * FloorTravelTime

\* calculateEstimatedArrival, as the milliseconds added to Date.now(): the
\* movement under way from currentFloor to targetFloor, then every queued
\* request up to the first one for the floor asked about, then the last leg
calculateEstimatedArrival(elevator, targetFloor) ==
    LET moving == elevator.targetFloor # Null
        currentMovementTime ==
            IF moving
            THEN Abs(elevator.targetFloor - elevator.currentFloor)
                    * FloorTravelTime
            ELSE 0
        start == IF moving THEN elevator.targetFloor ELSE elevator.currentFloor
        queue == elevator.queue
        loop[k \in 0..Len(queue)] ==
            IF k = 0
            THEN [totalTime |-> currentMovementTime, currentFloor |-> start,
                  broke |-> FALSE]
            ELSE LET before == loop[k - 1]
                     floor == floorRequests[queue[k]].floor
                 IN  IF before.broke \/ floor = targetFloor
                     THEN [before EXCEPT !.broke = TRUE]
                     ELSE [totalTime |-> before.totalTime
                              + Abs(floor - before.currentFloor) * FloorTravelTime
                              + DoorOperationTime * 2,
                           currentFloor |-> floor, broke |-> FALSE]
        end == loop[Len(queue)]
    IN  end.totalTime + Abs(targetFloor - end.currentFloor) * FloorTravelTime

\* how long a movement under way may already have lasted when the estimate
\* is asked for: its timer, set for the whole distance, has not fired yet
ElapsedTimes(elevator) ==
    IF elevator.targetFloor # Null /\ elevator.targetFloor # elevator.currentFloor
    THEN {0, FloorTravelTime \div 2}
    ELSE {0}

\* calculateEstimatedArrival is called for unit u and a floor, elapsed
\* milliseconds into the movement of the unit
estimateArrival(u, targetFloor, elapsed) ==
    /\ Ready
    /\ estimate.pc = "idle"
    /\ estimate' = [pc |-> "done", elevatorId |-> u, floor |-> targetFloor,
                    elapsed |-> elapsed,
                    totalTime |-> calculateEstimatedArrival(activeElevators[u],
                                                            targetFloor)]
    /\ UNCHANGED <<unitVars, floorRequests, configVars, algorithm, calls,
                   operatorCall, statusCalls, lifecycleVars, errors>>

\* the caller has its answer
estimateReturn ==
    /\ estimate.pc = "done"
    /\ estimate' = NoEstimate
    /\ UNCHANGED <<unitVars, floorRequests, configVars, algorithm, calls,
                   operatorCall, statusCalls, lifecycleVars, errors>>

\* one unit parked anywhere or under way to the head of its queue, with any
\* queue made of the requests of the ledger
EstimateUnits ==
    LET parked == [currentFloor |-> 1, targetFloor |-> Null, state |-> "IDLE",
                   direction |-> "NONE", doorState |-> "CLOSED",
                   isActive |-> TRUE, queue |-> <<>>, isMoving |-> FALSE]
        queues == {<<>>} \cup {<<r>> : r \in RequestIds}
                     \cup {<<r, s>> : r, s \in RequestIds}
        idle == {[parked EXCEPT !.currentFloor = f, !.queue = q] :
                    f \in 1..totalFloors, q \in queues}
        moving == {[startMovingToFloor(e, floorRequests[e.queue[1]].floor)
                       EXCEPT !.isMoving = TRUE] :
                      e \in {i \in idle : i.queue # <<>>}}
    IN  idle \cup moving

EstimateInit ==
    /\ totalFloors = DispatchFloors
    /\ floorRequests \in [1..MaxRequests ->
          {[floor |-> f, direction |-> "UP", priority |-> 0,
            status |-> "ASSIGNED", elevatorId |-> 1] : f \in 1..DispatchFloors}]
    /\ activeElevators \in [{1} -> EstimateUnits]
    /\ dbElevators = [u \in {1} |-> RowOf(activeElevators[u])]
    /\ movementTimers = [u \in {1} |-> activeElevators[u].isMoving]
    /\ orphanTimers = [u \in {1} |-> 0]
    /\ doorOpeningTimers = [u \in {1} |-> 0]
    /\ autoCloseTimers = [u \in {1} |-> 0]
    /\ doorClosingTimers = [u \in {1} |-> 0]
    /\ idleTasks = [u \in {1} |-> <<>>]
    /\ errors = [u \in {1} |-> 0]
    /\ uniqueIndex = FALSE
    /\ algorithm \in SCHEDULING_ALGORITHMS
    /\ calls = [c \in {1} |-> IdleCall]
    /\ operatorCall = IdleOperator
    /\ statusCalls = [q \in {1} |-> IdleStatus]
    /\ service = Running
    /\ detached = NoDetached
    /\ estimate = NoEstimate

EstimateNext ==
    \/ \E u \in Elevators, targetFloor \in 1..totalFloors :
          \E elapsed \in ElapsedTimes(activeElevators[u]) :
             estimateArrival(u, targetFloor, elapsed)
    \/ estimateReturn

EstimateSpec == EstimateInit /\ [][EstimateNext]_vars

\* the queued stops of a unit that precede floor F in queue order
Preceding(elevator, F) ==
    LET floors == [i \in 1..Len(elevator.queue) |->
                      floorRequests[elevator.queue[i]].floor]
        hits == {i \in 1..Len(floors) : floors[i] = F}
    IN  SubSeq(floors, 1, IF hits = {} THEN Len(floors) ELSE MinOf(hits) - 1)

\* travel along a path of floors, with a door cycle at every stop before the
\* last
PathTime(path) ==
    LET travel[k \in 1..Len(path)] ==
            IF k = 1 THEN 0
            ELSE travel[k - 1] + Abs(path[k] - path[k - 1]) * FloorTravelTime
    IN  travel[Len(path)] + (Len(path) - 2) * 2 * DoorOperationTime

\* the time of the movement under way of a unit, and the floor it ends on
LegTime(elevator) ==
    IF elevator.targetFloor = Null THEN 0
    ELSE Abs(elevator.targetFloor - elevator.currentFloor) * FloorTravelTime

LegEnd(elevator) ==
    IF elevator.targetFloor = Null THEN elevator.currentFloor
    ELSE elevator.targetFloor

\* the estimate for the unit and floor asked about, given the time counted
\* for the movement under way
EstimateIs(inFlight) ==
    LET elevator == activeElevators[estimate.elevatorId]
        F == estimate.floor
    IN  /\ estimate.totalTime =
              inFlight + PathTime(<<LegEnd(elevator)>>
                                     \o Preceding(elevator, F) \o <<F>>)
        /\ estimate.totalTime >= 0
        /\ elevator.state = "IDLE" /\ elevator.queue = <<>>
              => estimate.totalTime =
                    FloorTravelTime * Abs(F - elevator.currentFloor)

StatisticsRows ==
    LET row == [floor |-> 1, direction |-> "UP", priority |-> 0,
                status |-> "ASSIGNED", elevatorId |-> 1, waitTime |-> Null,
                completedAt |-> Null]
    IN  {row} \cup
        {[row EXCEPT !.status = "COMPLETED", !.waitTime = w, !.completedAt = t] :
            w \in {Null, 30000, 90000, 7200000}, t \in {Now - 1, Now - 48}}

StatisticsInit ==
    /\ initialize([u \in 1..NumElevators |-> SeedRow])
    /\ floorRequests \in UNION {[1..n -> StatisticsRows] : n \in 0..MaxRequests}
    /\ totalFloors = NumFloors
    /\ uniqueIndex = FALSE
    /\ algorithm \in SCHEDULING_ALGORITHMS
    /\ calls = [c \in {1} |-> IdleCall]
    /\ operatorCall = IdleOperator
    /\ statusCalls = [q \in {1} |-> IdleStatus]
    /\ service = Running
    /\ detached = NoDetached
    /\ estimate = NoEstimate

StatisticsNext ==
    \/ \E q \in StatusIds : getAlgorithmStats(q)
    \/ \E q \in StatusIds : getAlgorithmStatsReturn(q)
    \/ \E q \in StatusIds : StatusReturn(q)

StatisticsSpec == StatisticsInit /\ [][StatisticsNext]_vars

\* the requests COMPLETED inside the trailing window
CompletedInWindow ==
    {r \in RequestIds : /\ floorRequests[r].status = "COMPLETED"
                        /\ floorRequests[r].completedAt >= Now - StatsWindow}

\* the sum of the waits of the requests of a set, in milliseconds
WaitSum(S) ==
    LET upTo[k \in 0..Len(floorRequests)] ==
            IF k = 0 THEN 0
            ELSE upTo[k - 1] + IF k \in S THEN floorRequests[k].waitTime ELSE 0
    IN  upTo[Len(floorRequests)]

\* C37: every answer of getAlgorithmStats is made of well-defined numbers:
\* totalRequests counts the requests COMPLETED inside the window, efficiency
\* is max(0, 100 - average wait in minutes) and lies between 0 and 100, and
\* without a completed request totalRequests and avgWaitTime are both 0
C37_StatsWellDefined ==
    \A q \in StatusIds :
        statusCalls[q].op = "getAlgorithmStats" /\ statusCalls[q].pc = "done"
           => LET stats == statusCalls[q].result
                  n == Cardinality(CompletedInWindow)
                  e == stats.efficiency
              IN  /\ stats.totalRequests = n
                  /\ stats.avgWaitTime.kind = "number"
                  /\ stats.maxWaitTime.kind = "number"
                  /\ stats.minWaitTime.kind = "number"
                  /\ 0 <= e.num /\ e.num <= 100 * e.den
                  /\ n > 0 =>
                        /\ e.den = MinuteMs * n
                        /\ e.num = IF WaitSum(CompletedInWindow) < 100 * e.den
                                   THEN 100 * e.den - WaitSum(CompletedInWindow)
                                   ELSE 0
                  /\ n = 0 => stats.avgWaitTime = Num(0)

(* ------------------------- the door-closing phase ---------------------- *)

\* the period of the service loop, in milliseconds
TickInterval == 1000

\* ticks that find a unit in DOOR_CLOSING before the first timer set for the
\* phase, doorOperationTime long, has fired; each of them sets a timer
ClosingTicks == DoorOperationTime \div TickInterval

\* a unit that has arrived at the head of its queue and is closing its doors
ClosingUnits ==
    LET parked == [currentFloor |-> 1, targetFloor |-> Null, state |-> "IDLE",
                   direction |-> "NONE", doorState |-> "CLOSED",
                   isActive |-> TRUE, queue |-> <<>>, isMoving |-> FALSE]
        from == {[parked EXCEPT !.currentFloor = f, !.queue = q] :
                    f \in 1..totalFloors,
                    q \in {<<1>>} \cup {<<1, r>> : r \in RequestIds \ {1}}}
        arrived == {arriveAtFloor(startMovingToFloor(e,
                                      floorRequests[e.queue[1]].floor)) :
                       e \in {i \in from :
                                 i.currentFloor # floorRequests[1].floor}}
    IN  {startClosingDoors([e EXCEPT !.state = "DOOR_OPEN",
                                     !.doorState = "OPEN"]) : e \in arrived}

\* the seeded deployment some time into its service: the requests of the
\* ledger are assigned to the unit, which is closing its doors at the first
\* of them, seen in that state by one tick or by every tick of the phase
DoorInit ==
    /\ totalFloors = NumFloors
    /\ floorRequests \in [1..MaxRequests ->
          {[floor |-> f, direction |-> d, priority |-> 0,
            status |-> "ASSIGNED", elevatorId |-> 1] :
              f \in 1..NumFloors, d \in {"UP", "DOWN"}}]
    /\ activeElevators \in [{1} -> ClosingUnits]
    /\ dbElevators = [u \in {1} |-> RowOf(activeElevators[u])]
    /\ movementTimers = [u \in {1} |-> FALSE]
    /\ orphanTimers = [u \in {1} |-> 0]
    /\ doorOpeningTimers = [u \in {1} |-> 0]
    /\ autoCloseTimers = [u \in {1} |-> 0]
    /\ doorClosingTimers \in [{1} -> 1..ClosingTicks]
    /\ idleTasks = [u \in {1} |-> <<>>]
    /\ errors = [u \in {1} |-> 0]
    /\ uniqueIndex = FALSE
    /\ algorithm \in SCHEDULING_ALGORITHMS
    /\ calls = [c \in {1} |-> IdleCall]
    /\ operatorCall = IdleOperator
    /\ statusCalls = [q \in {1} |-> IdleStatus]
    /\ service = Running
    /\ detached = NoDetached
    /\ estimate = NoEstimate

DoorNext ==
    \/ processAllElevators
    \/ \E u \in Elevators : processIdleState(u)
    \/ \E u \in Elevators : MovementTimer(u)
    \/ \E u \in Elevators : DoorOpeningTimer(u)
    \/ \E u \in Elevators : AutoCloseTimer(u)
    \/ \E u \in Elevators : DoorClosingTimer(u)

DoorSpec == DoorInit /\ [][DoorNext]_vars

\* the step in which a door-closing timer of unit u fires and removes the
\* head of its queue
Pops(u) ==
    /\ doorClosingTimers'[u] < doorClosingTimers[u]
    /\ activeElevators[u].queue # <<>>
    /\ activeElevators'[u].queue = Tail(activeElevators[u].queue)

\* C38: a door-closing phase removes exactly one request: a request leaves
\* the queue only in the step that ends a DOOR_CLOSING phase, every such
\* step on a unit with requests removes one, and no request leaves the queue
\* again before the unit has arrived somewhere
C38_OnePopPerClosing ==
    [][\A u \in Elevators :
          /\ Pops(u) => activeElevators[u].state = "DOOR_CLOSING"
          /\ /\ activeElevators[u].state = "DOOR_CLOSING"
             /\ activeElevators'[u].state # "DOOR_CLOSING"
             /\ activeElevators[u].queue # <<>>
             => Pops(u)]_vars

(* ----------------------- the request that is served -------------------- *)

\* C39: the request removed at door close is the one the unit served: its
\* floor is the floor the unit stands on in that step, also when callElevator
\* has pushed a request and sorted the queue since the unit set off
C39_PopsTheServedRequest ==
    [][\A u \in Elevators :
          Pops(u) =>
             floorRequests[Head(activeElevators[u].queue)].floor
                = activeElevators[u].currentFloor]_vars

(* ------------------------ ledger and queues agree ---------------------- *)

\* how often request r stands in the queue of unit u
Occurrences(u, r) ==
    Cardinality({i \in DOMAIN activeElevators[u].queue :
                    activeElevators[u].queue[i] = r})

\* C40: every request that is ASSIGNED or IN_PROGRESS stands exactly once in
\* the queue of the unit it is assigned to and in no other queue, and no
\* queue holds a request twice
C40_LedgerMatchesQueues ==
    /\ \A r \in RequestIds :
          floorRequests[r].status \in {"ASSIGNED", "IN_PROGRESS"} =>
             \A u \in Elevators :
                Occurrences(u, r) = IF floorRequests[r].elevatorId = u
                                    THEN 1 ELSE 0
    /\ \A u \in Elevators, r \in RequestIds : Occurrences(u, r) <= 1

====
